---------------------------- MODULE Spec2Model ----------------------------
(***************************************************************************)
(* State-machine model of the multi-kernel platform core:                  *)
(*   - DynamicCache<Key,Value>   (include/core/cache/dynamic)              *)
(*   - RecoveryManager           (src/core/recovery)                       *)
(*   - LoadBalancer              (src/core/balancer)                       *)
(*   - kernel / manager shutdown (src/core/kernel, src/core/cache/manager) *)
(* Each component has its own next-state relation and specification; the   *)
(* variables of the other components stay unchanged under it.              *)
(***************************************************************************)
EXTENDS Integers, Sequences, FiniteSets, TLC

(***************************************************************************)
(* Bounds of the model.                                                    *)
(***************************************************************************)
NumKeys == 3
NumValues == 1
MaxCapacity == 2
MaxTime == 2
MaxTtl == 1
TicksPerSecond == 2     \* clock ticks of the model per second of the steady clock

(***************************************************************************)
(* Program constants.                                                      *)
(***************************************************************************)
DefaultMinSize == 16
DefaultMaxSize == 4096

None == 0
Keys == 1..NumKeys
Values == 1..NumValues
Ttls == 0..MaxTtl

VARIABLES
    \* ---- DynamicCache ----
    cache_,             \* unordered_map: key -> Entry (the list iterator is the key's node in lruList_)
    lruList_,           \* std::list<Key>, front = most recently used
    allocatedSize_,     \* capacity
    autoResizeEnabled_, minSize_, maxSize_,
    stopCleanup_,       \* atomic flag read by the maintenance thread
    mutexHolder,        \* exclusive owner of mutex_: "none" | "client" | "cleanup"
    cleanupMutexHeld,   \* cleanupMutex_ (only exists on the 6194c3d side of the merge)
    cleanupPc,          \* position of cleanupThreadFunc
    clientPc,           \* position of the calling thread
    pendingKey,         \* key of a get that has released the lock and is about to call remove
    build,              \* which side of the unresolved merge was built: "HEAD" | "6194c3d"
    now,                \* steady_clock, in ticks
    lastOp,             \* the last completed client operation and what it observed
    recency,            \* keys present, most recently put/get first (history of accesses)
    evictionCallback_,  \* the installed callback: "none", or how it ends: "returns" | "throws"
    invoked             \* key -> calls of the callback in the last step of an operation on the entries

cacheVars == <<cache_, lruList_, allocatedSize_, autoResizeEnabled_, minSize_, maxSize_,
               stopCleanup_, mutexHolder, cleanupMutexHeld, cleanupPc, clientPc,
               pendingKey, build, now, lastOp, recency, evictionCallback_, invoked>>

VARIABLES
    \* ---- RecoveryManager ----
    rmConfig,           \* pointConfig.enableCompression, enableStateValidation
    rmFiles,            \* storagePath: point id -> contents of <id>.json
    rmPoints,           \* pImpl->recoveryPoints: point id -> RecoveryPoint
    rmCaptured,         \* what the state-capture callback returned for each stored id
    rmTampered,         \* ids whose file was changed after it was written
    rmLast              \* the last call and what it did

recoveryVars == <<rmConfig, rmFiles, rmPoints, rmCaptured, rmTampered, rmLast>>

VARIABLES
    \* ---- LoadBalancer ----
    strategyEnum,                 \* current BalancingStrategy
    rrIdx,                        \* round-robin index
    resourceAwareDecisions_, workloadSpecificDecisions_, totalDecisions_,
    cpuWeight_, memoryWeight_, networkWeight_, energyWeight_,   \* in thousandths
    lbLast                        \* the last balance call: its input and its scheduleTask calls

balancerVars == <<strategyEnum, rrIdx, resourceAwareDecisions_, workloadSpecificDecisions_,
                  totalDecisions_, cpuWeight_, memoryWeight_, networkWeight_, energyWeight_,
                  lbLast>>

VARIABLES
    \* ---- component lifecycle ----
    components,                   \* each component's state flag, owned sub-components, children
    lcLast,                       \* the run of consecutive shutdown calls on one component
    lcCall                        \* the last call on a component and its result

lifecycleVars == <<components, lcLast, lcCall>>

VARIABLES
    \* ---- ThreadPool ----
    poolQueue,                    \* the FIFO queue of submitted closures
    poolWorkers,                  \* worker -> the closure it executes, Idle or Exited
    poolStopping,                 \* stop() was called and restart() was not
    poolRuns,                     \* closure -> how many times it was executed
    poolWaitPc, poolWaitFor,      \* the thread in waitForCompletion; what was submitted before
    poolStopPc, poolStopFor,      \* the thread in stop; what was queued before
    poolEvent                     \* what the last step returned to its caller

poolVars == <<poolQueue, poolWorkers, poolStopping, poolRuns, poolWaitPc, poolWaitFor,
              poolStopPc, poolStopFor, poolEvent>>

VARIABLES
    \* ---- two DynamicCache objects "a" and "b" under concurrent callers ----
    \* ("a" is the cache of cache_ and lruList_; of "b" only the mutex is kept)
    excl,                         \* cache -> the thread that owns its mutex_ exclusively, or None
    shared,                       \* cache -> the threads that own its mutex_ shared
    thPc,                         \* thread -> its position in get, syncWith
    thArg                         \* thread -> the key of its get, or the cache it syncs

callerVars == <<excl, shared, thPc, thArg>>

VARIABLES
    \* ---- several ParentKernel objects of one process ----
    parentKernelState,            \* the file-level parentKernelState: [running]
    parents,                      \* instance -> "absent", "alive" or "destroyed"
    pkCall                        \* the last call: instance, op, isRunning() of the live ones before

instanceVars == <<parentKernelState, parents, pkCall>>

vars == <<cacheVars, recoveryVars, balancerVars, lifecycleVars, poolVars, callerVars, instanceVars>>

exceptCache == <<recoveryVars, balancerVars, lifecycleVars, poolVars, callerVars, instanceVars>>

exceptRecovery == <<cacheVars, balancerVars, lifecycleVars, poolVars, callerVars, instanceVars>>

exceptBalancer == <<cacheVars, recoveryVars, lifecycleVars, poolVars, callerVars, instanceVars>>

exceptLifecycle == <<cacheVars, recoveryVars, balancerVars, poolVars, callerVars, instanceVars>>

exceptPool == <<cacheVars, recoveryVars, balancerVars, lifecycleVars, callerVars, instanceVars>>

exceptInstances == <<cacheVars, recoveryVars, balancerVars, lifecycleVars, poolVars, callerVars>>

(***************************************************************************)
(* Helpers on maps and lists.                                              *)
(***************************************************************************)
Without(f, k) == [x \in DOMAIN f \ {k} |-> f[x]]

With(f, k, v) == [x \in DOMAIN f \cup {k} |-> IF x = k THEN v ELSE f[x]]

SeqWithout(s, k) == SelectSeq(s, LAMBDA x : x # k)

Range(s) == {s[i] : i \in DOMAIN s}

Front(s) == SubSeq(s, 1, Len(s) - 1)

Perms(S) == {s \in [1..Cardinality(S) -> S] : Range(s) = S}

EmptyMap == [x \in {} |-> None]

Min2(a, b) == IF a < b THEN a ELSE b

Max2(a, b) == IF a > b THEN a ELSE b

(***************************************************************************)
(* DynamicCache: pure parts.  A cache state is a record                    *)
(*   [cache, lru, ev] : map, LRU list, keys handed to the eviction path.   *)
(***************************************************************************)
Entry(v, t, ttl) == [data |-> v, lastAccess |-> t, ttlSeconds |-> ttl]

\* variant: the comparison is strict
IsExpired_Strict(e, t) ==
    /\ e.ttlSeconds > 0
    /\ ((t - e.lastAccess) \div TicksPerSecond) > e.ttlSeconds

\* duration_cast<seconds>(now - lastAccess) >= ttlSeconds, for ttlSeconds > 0
IsExpired(e, t) ==
    /\ e.ttlSeconds > 0
    /\ ((t - e.lastAccess) \div TicksPerSecond) >= e.ttlSeconds

\* lruList_.splice(lruList_.begin(), lruList_, it): the node of k moves to the front
SpliceFront(lru, k) == <<k>> \o SeqWithout(lru, k)

\* variant: the map entry goes, its list node stays
evictLRU_KeepsNode(st) ==
    IF st.lru = <<>> THEN st
    ELSE LET key == st.lru[Len(st.lru)] IN
         IF key \in DOMAIN st.cache
         THEN [cache |-> Without(st.cache, key),
               lru   |-> st.lru,
               ev    |-> Append(st.ev, key)]
         ELSE st

evictLRU(st) ==
    IF st.lru = <<>> THEN st
    ELSE LET key == st.lru[Len(st.lru)] IN
         IF key \in DOMAIN st.cache
         THEN [cache |-> Without(st.cache, key),
               lru   |-> Front(st.lru),
               ev    |-> Append(st.ev, key)]
         ELSE st

\* while (size > capacity && !lruList_.empty()) evictLRU(); the loop would not end
\* on a tail key that is missing from the map, so the recursion stops there
RECURSIVE evictIfNeeded(_, _)
evictIfNeeded(st, cap) ==
    IF Cardinality(DOMAIN st.cache) > cap /\ st.lru # <<>> /\ evictLRU(st) # st
    THEN evictIfNeeded(evictLRU(st), cap)
    ELSE st

RECURSIVE removeExpiredFrom(_, _, _)
removeExpiredFrom(st, i, t) ==
    IF i > Len(st.lru) THEN st
    ELSE LET k == st.lru[i] IN
         IF k \in DOMAIN st.cache /\ IsExpired(st.cache[k], t)
         THEN removeExpiredFrom([cache |-> Without(st.cache, k),
                                 lru   |-> SubSeq(st.lru, 1, i - 1) \o SubSeq(st.lru, i + 1, Len(st.lru)),
                                 ev    |-> Append(st.ev, k)], i, t)
         ELSE removeExpiredFrom(st, i + 1, t)

removeExpired(st, t) == removeExpiredFrom(st, 1, t)

\* variant: the capacity doubles past the maximum
autoResize_Unbounded(size, cap, mn, mx) ==
    IF 4 * size < cap /\ cap > mn THEN Max2(mn, cap \div 2)
    ELSE IF 5 * size > 4 * cap /\ cap < mx THEN cap * 2
    ELSE cap

\* allocatedSize_ * 0.25 and * 0.8 are doubles: compare without rounding
autoResize(size, cap, mn, mx) ==
    IF 4 * size < cap /\ cap > mn THEN Max2(mn, cap \div 2)
    ELSE IF 5 * size > 4 * cap /\ cap < mx THEN Min2(mx, cap * 2)
    ELSE cap

putInto(st, cap, key, value, ttl, t) ==
    IF key \in DOMAIN st.cache
    THEN [cache |-> With(st.cache, key, Entry(value, t, ttl)),
          lru   |-> SpliceFront(st.lru, key),
          ev    |-> st.ev]
    ELSE LET s1 == IF Cardinality(DOMAIN st.cache) >= cap THEN evictLRU(st) ELSE st IN
         [cache |-> With(s1.cache, key, Entry(value, t, ttl)),
          lru   |-> <<key>> \o s1.lru,
          ev    |-> s1.ev]

resizeTo(st, newSize) ==
    LET size == Cardinality(DOMAIN st.cache)
        RECURSIVE loop(_, _)
        loop(s, n) == IF n = 0 \/ s.lru = <<>> THEN s ELSE loop(evictLRU(s), n - 1)
    IN IF newSize < size THEN loop(st, size - newSize) ELSE st

\* other.cache_ copied in iteration order `iter`; the entries keep other's lastAccess
syncFrom(otherCache, iter) ==
    [cache |-> otherCache, lru |-> iter]

\* one pass of the maintenance loop body, under the exclusive lock
cleanupPass(st, cap, t) == evictIfNeeded(removeExpired(st, t), cap)

CacheState == [cache |-> cache_, lru |-> lruList_, ev |-> <<>>]

callbackVars == <<evictionCallback_, invoked>>

\* how often each key occurs in a sequence of keys
Calls(ev) == [k \in Keys |-> Cardinality({i \in DOMAIN ev : ev[i] = k})]

NoCalls == Calls(<<>>)

\* if (evictionCallback_) evictionCallback_(key, data): the calls an operation makes
\* whose eviction path handles the keys `ev`; a call that throws is the last one
Invocations(ev) ==
    IF evictionCallback_ = "none" THEN <<>>
    ELSE IF evictionCallback_ = "throws" /\ ev # <<>> THEN <<ev[1]>>
    ELSE ev

Thrown(ev) == evictionCallback_ = "throws" /\ ev # <<>>

\* the callback runs before the entry is erased and nothing catches what it
\* throws: the operation ends at the first call, with the state it found
After(st) == IF Thrown(st.ev) THEN CacheState ELSE st

RECURSIVE SetToSeq(_)
SetToSeq(S) ==
    IF S = {} THEN <<>>
    ELSE LET m == CHOOSE x \in S : \A y \in S : x <= y IN <<m>> \o SetToSeq(S \ {m})

\* history of accesses: drop the keys that left, then move the touched keys to the front
RECURSIVE Touch(_, _)
Touch(rec, ks) ==
    IF ks = <<>> THEN rec
    ELSE Touch(<<ks[1]>> \o SeqWithout(rec, ks[1]), SubSeq(ks, 2, Len(ks)))

Recency(rec, present, touched) ==
    SelectSeq(Touch(rec, touched), LAMBDA x : x \in present)

\* op, key: the call; ret: what get returned; ev: keys given to the eviction path;
\* pre: for a put that adds a key at size = capacity, the key whose last put or
\* get is the oldest; due: for a get, whether the entry's time to live had run out
Op(op, key, ret, pre, due, ev) ==
    [op |-> op, key |-> key, ret |-> ret, pre |-> pre, due |-> due, ev |-> ev]

NothingToEvict == 0 - 1

\* lastOp after an operation other than put and get
NoOp == Op("none", None, None, None, FALSE, <<>>)

(***************************************************************************)
(* DynamicCache: operations of the calling thread.  Each takes mutex_      *)
(* for its whole body, so it is one step, except get on an expired entry,  *)
(* which unlocks and then calls remove.                                    *)
(***************************************************************************)
\* an exception that leaves the maintenance thread's function ends the program
Running == cleanupPc # "terminated"

ClientReady == clientPc = "idle" /\ mutexHolder = "none" /\ Running

threadVars == <<stopCleanup_, mutexHolder, cleanupMutexHeld, cleanupPc, build>>

resizeVars == <<allocatedSize_, autoResizeEnabled_, minSize_, maxSize_>>

Put(key, value, ttl) ==
    /\ UNCHANGED exceptCache
    /\ UNCHANGED evictionCallback_
    /\ ClientReady
    /\ LET full == putInto(CacheState, allocatedSize_, key, value, ttl, now)
           st == After(full) IN
       /\ cache_' = st.cache
       /\ lruList_' = st.lru
       /\ recency' = IF Thrown(full.ev) THEN recency
                     ELSE Recency(recency, DOMAIN st.cache, <<key>>)
       /\ lastOp' = Op("put", key, None,
                       IF key \notin DOMAIN cache_ /\ Cardinality(DOMAIN cache_) = allocatedSize_
                       THEN (IF recency = <<>> THEN NothingToEvict ELSE recency[Len(recency)])
                       ELSE None,
                       FALSE, full.ev)
       /\ invoked' = Calls(Invocations(full.ev))
    /\ UNCHANGED <<resizeVars, threadVars, clientPc, pendingKey, now>>

\* the entry's time to live has run out at time t: t >= last_access + ttl, ttl > 0
Due(e, t) == e.ttlSeconds > 0 /\ t >= e.lastAccess + e.ttlSeconds * TicksPerSecond

Get(key) ==
    /\ UNCHANGED exceptCache
    /\ UNCHANGED evictionCallback_
    /\ invoked' = NoCalls
    /\ ClientReady
    /\ IF key \notin DOMAIN cache_
       THEN /\ lastOp' = Op("get", key, None, None, FALSE, <<>>)
            /\ UNCHANGED <<cache_, lruList_, recency, clientPc, pendingKey>>
       ELSE IF IsExpired(cache_[key], now)
       THEN \* lock.unlock(); remove(key) follows as a separate locked section
            /\ clientPc' = "get_remove"
            /\ pendingKey' = key
            /\ lastOp' = Op("get", key, None, None, Due(cache_[key], now), <<>>)
            /\ UNCHANGED <<cache_, lruList_, recency>>
       ELSE /\ lruList_' = SpliceFront(lruList_, key)
            /\ cache_' = [cache_ EXCEPT ![key].lastAccess = now]
            /\ recency' = Recency(recency, DOMAIN cache_, <<key>>)
            /\ lastOp' = Op("get", key, cache_[key].data, None, Due(cache_[key], now), <<>>)
            /\ UNCHANGED <<clientPc, pendingKey>>
    /\ UNCHANGED <<resizeVars, threadVars, now>>

\* variant: the entry goes without a call of the callback
removeKey_NoCallback(st, key) ==
    IF key \in DOMAIN st.cache
    THEN [cache |-> Without(st.cache, key),
          lru   |-> SeqWithout(st.lru, key),
          ev    |-> st.ev]
    ELSE st

removeKey(st, key) ==
    IF key \in DOMAIN st.cache
    THEN [cache |-> Without(st.cache, key),
          lru   |-> SeqWithout(st.lru, key),
          ev    |-> Append(st.ev, key)]
    ELSE st

GetRemove ==
    /\ UNCHANGED exceptCache
    /\ UNCHANGED evictionCallback_
    /\ clientPc = "get_remove"
    /\ mutexHolder = "none"
    /\ Running
    /\ LET full == removeKey(CacheState, pendingKey)
           st == After(full) IN
       /\ cache_' = st.cache
       /\ lruList_' = st.lru
       /\ recency' = Recency(recency, DOMAIN st.cache, <<>>)
       /\ lastOp' = [lastOp EXCEPT !.ev = full.ev]
       /\ invoked' = Calls(Invocations(full.ev))
    /\ clientPc' = "idle"
    /\ pendingKey' = None
    /\ UNCHANGED <<resizeVars, threadVars, now>>

Remove(key) ==
    /\ UNCHANGED exceptCache
    /\ UNCHANGED evictionCallback_
    /\ ClientReady
    /\ LET full == removeKey(CacheState, key)
           st == After(full) IN
       /\ cache_' = st.cache
       /\ lruList_' = st.lru
       /\ recency' = Recency(recency, DOMAIN st.cache, <<>>)
       /\ lastOp' = NoOp
       /\ invoked' = Calls(Invocations(full.ev))
    /\ UNCHANGED <<resizeVars, threadVars, clientPc, pendingKey, now>>

\* the callback is called for each entry in the map's iteration order `iter`
clearAll(st, iter) == [cache |-> EmptyMap, lru |-> <<>>, ev |-> st.ev \o iter]

Clear ==
    /\ UNCHANGED exceptCache
    /\ UNCHANGED evictionCallback_
    /\ ClientReady
    /\ \E iter \in Perms(DOMAIN cache_) :
          LET full == clearAll(CacheState, iter)
              st == After(full) IN
          /\ cache_' = st.cache
          /\ lruList_' = st.lru
          /\ recency' = Recency(recency, DOMAIN st.cache, <<>>)
          /\ invoked' = Calls(Invocations(full.ev))
    /\ lastOp' = NoOp
    /\ UNCHANGED <<resizeVars, threadVars, clientPc, pendingKey, now>>

Resize(newSize) ==
    /\ UNCHANGED exceptCache
    /\ UNCHANGED evictionCallback_
    /\ ClientReady
    /\ LET full == resizeTo(CacheState, newSize)
           st == After(full) IN
       /\ cache_' = st.cache
       /\ lruList_' = st.lru
       /\ recency' = Recency(recency, DOMAIN st.cache, <<>>)
       /\ lastOp' = NoOp
       /\ invoked' = Calls(Invocations(full.ev))
       /\ allocatedSize_' = IF Thrown(full.ev) THEN allocatedSize_ ELSE newSize
    /\ UNCHANGED <<autoResizeEnabled_, minSize_, maxSize_, threadVars, clientPc, pendingKey, now>>

RECURSIVE batchPutInto(_, _, _, _, _, _)
batchPutInto(st, cap, order, value, ttl, t) ==
    IF order = <<>> THEN st
    ELSE batchPutInto(putInto(st, cap, order[1], value, ttl, t), cap,
                      SubSeq(order, 2, Len(order)), value, ttl, t)

\* `order` is the iteration order of the unordered_map argument
BatchPut(order, value, ttl) ==
    /\ UNCHANGED exceptCache
    /\ UNCHANGED evictionCallback_
    /\ ClientReady
    /\ LET upTo(i) == batchPutInto(CacheState, allocatedSize_, SubSeq(order, 1, i), value, ttl, now)
           full == upTo(Len(order))
           evicting == {i \in DOMAIN order : upTo(i).ev # <<>>}
           \* the items stored before the first call of a callback that throws
           done == IF Thrown(full.ev)
                   THEN (CHOOSE i \in evicting : \A j \in evicting : i <= j) - 1
                   ELSE Len(order)
           st == upTo(done) IN
       /\ cache_' = st.cache
       /\ lruList_' = st.lru
       /\ recency' = Recency(recency, DOMAIN st.cache, SubSeq(order, 1, done))
       /\ lastOp' = NoOp
       /\ invoked' = Calls(Invocations(full.ev))
    /\ UNCHANGED <<resizeVars, threadVars, clientPc, pendingKey, now>>

\* `otherLru` is other.lruList_ (other's access history), `iter` the iteration
\* order of other.cache_, whose entries all hold (value, lastAccess, ttl)
SyncWith(otherLru, iter, value, lastAccess, ttl) ==
    /\ UNCHANGED exceptCache
    /\ UNCHANGED evictionCallback_
    /\ ClientReady
    /\ \E mine \in Perms(DOMAIN cache_) :
          LET otherCache == [k \in Range(otherLru) |-> Entry(value, lastAccess, ttl)]
              full == clearAll(CacheState, mine)
              st == IF Thrown(full.ev) THEN CacheState ELSE syncFrom(otherCache, iter) IN
          /\ cache_' = st.cache
          /\ lruList_' = st.lru
          /\ recency' = IF Thrown(full.ev) THEN recency ELSE otherLru
          /\ invoked' = Calls(Invocations(full.ev))
    /\ lastOp' = NoOp
    /\ UNCHANGED <<resizeVars, threadVars, clientPc, pendingKey, now>>

SetAutoResize(enable, minSize, maxSize) ==
    /\ UNCHANGED exceptCache
    /\ UNCHANGED callbackVars
    /\ ClientReady
    /\ autoResizeEnabled_' = enable
    /\ minSize_' = minSize
    /\ maxSize_' = maxSize
    /\ UNCHANGED <<cache_, lruList_, allocatedSize_, recency, lastOp, threadVars,
                   clientPc, pendingKey, now>>

\* cb: empty, or a function that returns, or one that throws whenever it is called
setEvictionCallback(cb) ==
    /\ UNCHANGED exceptCache
    /\ ClientReady
    /\ evictionCallback_' = cb
    /\ UNCHANGED <<cache_, lruList_, recency, lastOp, invoked, resizeVars, threadVars,
                   clientPc, pendingKey, now>>

\* defined on the 6194c3d side of the merge only
CleanupSync ==
    /\ UNCHANGED exceptCache
    /\ UNCHANGED evictionCallback_
    /\ ClientReady
    /\ build = "6194c3d"
    /\ LET full == cleanupPass(CacheState, allocatedSize_, now)
           st == After(full) IN
       /\ cache_' = st.cache
       /\ lruList_' = st.lru
       /\ recency' = Recency(recency, DOMAIN st.cache, <<>>)
       /\ lastOp' = NoOp
       /\ invoked' = Calls(Invocations(full.ev))
    /\ UNCHANGED <<resizeVars, threadVars, clientPc, pendingKey, now>>

Tick ==
    /\ UNCHANGED exceptCache
    /\ UNCHANGED callbackVars
    /\ now < MaxTime
    /\ now' = now + 1
    /\ UNCHANGED <<cache_, lruList_, resizeVars, threadVars, clientPc, pendingKey,
                   lastOp, recency>>

(***************************************************************************)
(* DynamicCache under concurrent callers.  get takes mutex_ shared, every  *)
(* other operation takes it exclusively; syncWith takes its own mutex_     *)
(* exclusively and then the other cache's shared.                          *)
(***************************************************************************)
NumThreads == 2
Threads == 1..NumThreads
Caches == {"a", "b"}

exceptCallers == <<recoveryVars, balancerVars, lifecycleVars, poolVars, instanceVars>>

\* what the operations of the calling threads leave alone in cache "a"
callerFrame == <<resizeVars, threadVars, clientPc, pendingKey, callbackVars, now>>

\* std::unique_lock / std::shared_lock on the mutex_ of cache x can be taken
UniqueFree(x) == excl[x] = None /\ shared[x] = {}

SharedFree(x) == excl[x] = None

\* std::shared_lock<std::shared_mutex> lock(mutex_), first statement of get
getLock(t, key) ==
    /\ UNCHANGED exceptCallers
    /\ thPc[t] = "idle"
    /\ SharedFree("a")
    /\ shared' = [shared EXCEPT !["a"] = @ \cup {t}]
    /\ thPc' = [thPc EXCEPT ![t] = "get_find"]
    /\ thArg' = [thArg EXCEPT ![t] = key]
    /\ UNCHANGED <<excl, cache_, lruList_, recency, lastOp, callerFrame>>

\* cache_.find(key) and the check of the time to live; an expired entry makes
\* get release the lock and call remove
getFind(t) ==
    /\ UNCHANGED exceptCallers
    /\ thPc[t] = "get_find"
    /\ LET key == thArg[t] IN
       IF key \notin DOMAIN cache_
       THEN /\ shared' = [shared EXCEPT !["a"] = @ \ {t}]
            /\ thPc' = [thPc EXCEPT ![t] = "idle"]
            /\ thArg' = [thArg EXCEPT ![t] = None]
       ELSE IF IsExpired(cache_[key], now)
       THEN /\ shared' = [shared EXCEPT !["a"] = @ \ {t}]
            /\ thPc' = [thPc EXCEPT ![t] = "get_remove"]
            /\ UNCHANGED thArg
       ELSE /\ thPc' = [thPc EXCEPT ![t] = "get_update"]
            /\ UNCHANGED <<shared, thArg>>
    /\ UNCHANGED <<excl, cache_, lruList_, recency, lastOp, callerFrame>>

\* another thread is between its find and the end of its own update of the list
Racing(t) == \E u \in Threads \ {t} : thPc[u] = "get_update"

\* lruList_.splice(begin, lruList_, it->second.first); lastAccess = now, still
\* under the shared lock.  Two splices of one std::list at a time are a data
\* race: the list comes out as one splice after the other (torn = FALSE) or
\* with the node unlinked and not linked in again (torn = TRUE)
getUpdate(t, torn) ==
    /\ UNCHANGED exceptCallers
    /\ thPc[t] = "get_update"
    /\ torn => Racing(t)
    /\ LET key == thArg[t] IN
       /\ lruList_' = IF torn THEN SeqWithout(lruList_, key) ELSE SpliceFront(lruList_, key)
       /\ cache_' = [cache_ EXCEPT ![key].lastAccess = now]
       /\ recency' = Recency(recency, DOMAIN cache_, <<key>>)
       /\ lastOp' = Op("get", key, cache_[key].data, None, Due(cache_[key], now), <<>>)
    /\ shared' = [shared EXCEPT !["a"] = @ \ {t}]
    /\ thPc' = [thPc EXCEPT ![t] = "idle"]
    /\ thArg' = [thArg EXCEPT ![t] = None]
    /\ UNCHANGED <<excl, callerFrame>>

\* remove(key) called by get after it released the lock: the whole of remove
\* under the exclusive lock
getRemove(t) ==
    /\ UNCHANGED exceptCallers
    /\ thPc[t] = "get_remove"
    /\ UniqueFree("a")
    /\ LET st == removeKey(CacheState, thArg[t]) IN
       /\ cache_' = st.cache
       /\ lruList_' = st.lru
       /\ recency' = Recency(recency, DOMAIN st.cache, <<>>)
       /\ lastOp' = Op("get", thArg[t], None, None, TRUE, st.ev)
    /\ thPc' = [thPc EXCEPT ![t] = "idle"]
    /\ thArg' = [thArg EXCEPT ![t] = None]
    /\ UNCHANGED <<excl, shared, callerFrame>>

\* put by a thread: the whole body under the exclusive lock
putBy(t, key, value, ttl) ==
    /\ UNCHANGED exceptCallers
    /\ thPc[t] = "idle"
    /\ UniqueFree("a")
    /\ LET st == putInto(CacheState, allocatedSize_, key, value, ttl, now) IN
       /\ cache_' = st.cache
       /\ lruList_' = st.lru
       /\ recency' = Recency(recency, DOMAIN st.cache, <<key>>)
       /\ lastOp' = Op("put", key, None, None, FALSE, st.ev)
    /\ UNCHANGED <<callerVars, callerFrame>>

Other(x) == IF x = "a" THEN "b" ELSE "a"

\* x.syncWith(other): std::unique_lock lock(mutex_)
syncWithLock(t, x) ==
    /\ UNCHANGED exceptCallers
    /\ thPc[t] = "idle"
    /\ UniqueFree(x)
    /\ excl' = [excl EXCEPT ![x] = t]
    /\ thPc' = [thPc EXCEPT ![t] = "sync_other"]
    /\ thArg' = [thArg EXCEPT ![t] = x]
    /\ UNCHANGED <<shared, cache_, lruList_, recency, lastOp, callerFrame>>

\* std::shared_lock otherLock(other.mutex_), the copy, and the end of both
\* locks' scope; otherLru and iter are the other cache's list and iteration order
syncWithCopy(t, otherLru, iter, value, lastAccess, ttl) ==
    /\ UNCHANGED exceptCallers
    /\ thPc[t] = "sync_other"
    /\ SharedFree(Other(thArg[t]))
    /\ IF thArg[t] = "a"
       THEN LET st == syncFrom([k \in Range(otherLru) |-> Entry(value, lastAccess, ttl)], iter) IN
            /\ cache_' = st.cache
            /\ lruList_' = st.lru
            /\ recency' = otherLru
            /\ lastOp' = NoOp
       ELSE UNCHANGED <<cache_, lruList_, recency, lastOp>>
    /\ excl' = [excl EXCEPT ![thArg[t]] = None]
    /\ thPc' = [thPc EXCEPT ![t] = "idle"]
    /\ thArg' = [thArg EXCEPT ![t] = None]
    /\ UNCHANGED <<shared, callerFrame>>

InitCallers ==
    /\ excl = [x \in Caches |-> None]
    /\ shared = [x \in Caches |-> {}]
    /\ thPc = [t \in Threads |-> "idle"]
    /\ thArg = [t \in Threads |-> None]

CallersUnused == InitCallers

(***************************************************************************)
(* ParentKernel objects of one process.  running is not a member: every     *)
(* object reads and writes the one static parentKernelState.                *)
(***************************************************************************)
NumInstances == 3

Instances == 1..NumInstances

\* ParentKernel::isRunning
ParentKernel_isRunning(state) == state.running

\* the first statement of ParentKernel::initialize
ParentKernel_setRunning(state) == [state EXCEPT !.running = TRUE]

\* the first statement of ParentKernel::shutdown, and initialize after a child failed
ParentKernel_clearRunning(state) == [state EXCEPT !.running = FALSE]

PkCall(instance, op, before) == [instance |-> instance, op |-> op, before |-> before]

\* what isRunning() returns on each live instance
Observed == [j \in {i \in Instances : parents[i] = "alive"} |-> ParentKernel_isRunning(parentKernelState)]

\* ParentKernel::ParentKernel() = default
construct(i) ==
    /\ UNCHANGED exceptInstances
    /\ parents[i] = "absent"
    /\ parents' = [parents EXCEPT ![i] = "alive"]
    /\ pkCall' = PkCall(i, "construct", Observed)
    /\ UNCHANGED parentKernelState

\* childrenOk: every child's initialize returned true
initializeInstance(i, childrenOk) ==
    /\ UNCHANGED exceptInstances
    /\ parents[i] = "alive"
    /\ parentKernelState' = IF childrenOk THEN ParentKernel_setRunning(parentKernelState)
                            ELSE ParentKernel_clearRunning(ParentKernel_setRunning(parentKernelState))
    /\ pkCall' = PkCall(i, "initialize", Observed)
    /\ UNCHANGED parents

shutdownInstance(i) ==
    /\ UNCHANGED exceptInstances
    /\ parents[i] = "alive"
    /\ parentKernelState' = ParentKernel_clearRunning(parentKernelState)
    /\ pkCall' = PkCall(i, "shutdown", Observed)
    /\ UNCHANGED parents

\* ParentKernel::~ParentKernel calls shutdown
destroy(i) ==
    /\ UNCHANGED exceptInstances
    /\ parents[i] = "alive"
    /\ parentKernelState' = ParentKernel_clearRunning(parentKernelState)
    /\ parents' = [parents EXCEPT ![i] = "destroyed"]
    /\ pkCall' = PkCall(i, "destroy", Observed)

InitInstances ==
    /\ parentKernelState = [running |-> FALSE]
    /\ parents = [i \in Instances |-> "absent"]
    /\ pkCall = PkCall(None, "", <<>>)

InstancesUnused == InitInstances

NextInstances ==
    \/ \E i \in Instances : construct(i)
    \/ \E i \in Instances, childrenOk \in BOOLEAN : initializeInstance(i, childrenOk)
    \/ \E i \in Instances : shutdownInstance(i)
    \/ \E i \in Instances : destroy(i)


(***************************************************************************)
(* DynamicCache: the maintenance thread (cleanupThreadFunc, adaptiveSleep) *)
(***************************************************************************)
dataVars == <<cache_, lruList_, recency, lastOp, clientPc, pendingKey, now>>

\* while (!stopCleanup_) ...
CleanupCheck ==
    /\ UNCHANGED exceptCache
    /\ UNCHANGED callbackVars
    /\ cleanupPc = "check"
    /\ cleanupPc' = IF stopCleanup_ THEN "exited" ELSE "lock"
    /\ UNCHANGED <<dataVars, resizeVars, stopCleanup_, mutexHolder, cleanupMutexHeld, build>>

\* std::unique_lock<std::shared_mutex> lock(mutex_)
CleanupLock ==
    /\ UNCHANGED exceptCache
    /\ UNCHANGED callbackVars
    /\ cleanupPc = "lock"
    /\ mutexHolder = "none"
    /\ mutexHolder' = "cleanup"
    /\ cleanupPc' = "pass"
    /\ UNCHANGED <<dataVars, resizeVars, stopCleanup_, cleanupMutexHeld, build>>

\* removeExpired(); evictIfNeeded(); autoResize(); then the lock's scope ends
CleanupPass ==
    /\ UNCHANGED exceptCache
    /\ UNCHANGED evictionCallback_
    /\ cleanupPc = "pass"
    /\ IF stopCleanup_
       THEN /\ cleanupPc' = "exited"
            /\ mutexHolder' = "none"
            /\ UNCHANGED <<cache_, lruList_, recency, resizeVars, invoked>>
       ELSE LET full == cleanupPass(CacheState, allocatedSize_, now)
                st == After(full) IN
            /\ cache_' = st.cache
            /\ lruList_' = st.lru
            /\ recency' = Recency(recency, DOMAIN st.cache, <<>>)
            /\ invoked' = Calls(Invocations(full.ev))
            /\ allocatedSize_' = IF autoResizeEnabled_ /\ ~Thrown(full.ev)
                                 THEN autoResize(Cardinality(DOMAIN st.cache), allocatedSize_,
                                                 minSize_, maxSize_)
                                 ELSE allocatedSize_
            /\ cleanupPc' = IF Thrown(full.ev) THEN "terminated" ELSE "sleep_enter"
            /\ mutexHolder' = IF Thrown(full.ev) THEN mutexHolder ELSE "none"
            /\ UNCHANGED <<autoResizeEnabled_, minSize_, maxSize_>>
    /\ UNCHANGED <<lastOp, clientPc, pendingKey, now, stopCleanup_, cleanupMutexHeld, build>>

\* the mutex adaptiveSleep waits with: mutex_ on HEAD, cleanupMutex_ on 6194c3d
SleepLockFree == IF build = "HEAD" THEN mutexHolder = "none" ELSE ~cleanupMutexHeld

SleepLockSet(held) ==
    IF build = "HEAD"
    THEN /\ mutexHolder' = (IF held THEN "cleanup" ELSE "none")
         /\ UNCHANGED cleanupMutexHeld
    ELSE /\ cleanupMutexHeld' = held
         /\ UNCHANGED mutexHolder

\* adaptiveSleep up to the construction of the unique_lock
AdaptiveSleepEnter ==
    /\ UNCHANGED exceptCache
    /\ UNCHANGED callbackVars
    /\ cleanupPc = "sleep_enter"
    /\ IF build = "6194c3d" /\ stopCleanup_
       THEN /\ cleanupPc' = "check"
            /\ UNCHANGED <<mutexHolder, cleanupMutexHeld>>
       ELSE /\ SleepLockFree
            /\ SleepLockSet(TRUE)
            /\ cleanupPc' = "wait_pred"
    /\ UNCHANGED <<dataVars, resizeVars, stopCleanup_, build>>

\* variant: the thread sleeps with the lock still held
AdaptiveSleepWait_HoldsLock ==
    /\ UNCHANGED exceptCache
    /\ UNCHANGED callbackVars
    /\ cleanupPc = "wait_pred"
    /\ cleanupPc' = IF stopCleanup_ THEN "check" ELSE "sleeping"
    /\ UNCHANGED <<dataVars, resizeVars, stopCleanup_, build, mutexHolder, cleanupMutexHeld>>

\* cleanupCv_.wait_for(lock, ..., pred): pred true returns, else the wait
\* releases the lock for as long as the thread is blocked
AdaptiveSleepWait ==
    /\ UNCHANGED exceptCache
    /\ UNCHANGED callbackVars
    /\ cleanupPc = "wait_pred"
    /\ SleepLockSet(FALSE)
    /\ cleanupPc' = IF stopCleanup_ THEN "check" ELSE "sleeping"
    /\ UNCHANGED <<dataVars, resizeVars, stopCleanup_, build>>

\* timeout, notification or spurious wake-up: the wait re-acquires the lock
AdaptiveSleepWake ==
    /\ UNCHANGED exceptCache
    /\ UNCHANGED callbackVars
    /\ cleanupPc = "sleeping"
    /\ SleepLockFree
    /\ SleepLockSet(TRUE)
    /\ \E timedOut \in BOOLEAN :
          cleanupPc' = IF timedOut THEN "wait_timeout" ELSE "wait_pred"
    /\ UNCHANGED <<dataVars, resizeVars, stopCleanup_, build>>

AdaptiveSleepReturn ==
    /\ UNCHANGED exceptCache
    /\ UNCHANGED callbackVars
    /\ cleanupPc = "wait_timeout"
    /\ SleepLockSet(FALSE)
    /\ cleanupPc' = "check"
    /\ UNCHANGED <<dataVars, resizeVars, stopCleanup_, build>>

\* ~DynamicCache -> stopCleanupThread: set the flag, notify, join
StopCleanupThread ==
    /\ UNCHANGED exceptCache
    /\ UNCHANGED callbackVars
    /\ clientPc = "idle"
    /\ Running
    /\ build = "6194c3d" => ~cleanupMutexHeld
    /\ clientPc' = IF cleanupPc = "none" THEN "destroyed" ELSE "joining"
    /\ stopCleanup_' = (cleanupPc # "none")
    /\ UNCHANGED <<cache_, lruList_, recency, lastOp, pendingKey, now, resizeVars,
                   mutexHolder, cleanupMutexHeld, cleanupPc, build>>

JoinCleanupThread ==
    /\ UNCHANGED exceptCache
    /\ UNCHANGED callbackVars
    /\ clientPc = "joining"
    /\ cleanupPc = "exited"
    /\ clientPc' = "destroyed"
    /\ UNCHANGED <<cache_, lruList_, recency, lastOp, pendingKey, now, resizeVars,
                   threadVars>>

(***************************************************************************)
(* DynamicCache: construction and next-state relations.                    *)
(***************************************************************************)
InitCacheWith(builds) ==
    /\ cache_ = EmptyMap
    /\ lruList_ = <<>>
    /\ allocatedSize_ \in 0..MaxCapacity
    /\ autoResizeEnabled_ = FALSE
    /\ minSize_ = DefaultMinSize
    /\ maxSize_ = DefaultMaxSize
    /\ stopCleanup_ = FALSE
    /\ mutexHolder = "none"
    /\ cleanupMutexHeld = FALSE
    /\ cleanupPc = (IF allocatedSize_ > 0 THEN "check" ELSE "none")
    /\ clientPc = "idle"
    /\ pendingKey = None
    /\ build \in builds
    /\ now = 0
    /\ lastOp = NoOp
    /\ recency = <<>>
    /\ evictionCallback_ = "none"
    /\ invoked = NoCalls

AutoMin == 1
AutoMax == MaxCapacity + 1
MaxBatch == 2
MaxOther == 2

SmallSeqs(n) == UNION {Perms(S) : S \in {T \in SUBSET Keys : Cardinality(T) <= n}}

ClientOp ==
    \/ \E k \in Keys, v \in Values, ttl \in Ttls : Put(k, v, ttl)
    \/ \E k \in Keys : Get(k)
    \/ GetRemove
    \/ \E k \in Keys : Remove(k)
    \/ Clear
    \/ \E n \in 0..MaxCapacity : Resize(n)
    \/ \E order \in SmallSeqs(MaxBatch) \ {<<>>}, v \in Values, ttl \in Ttls :
          BatchPut(order, v, ttl)
    \/ \E otherLru \in SmallSeqs(MaxOther), v \in Values, ttl \in Ttls :
          \E iter \in Perms(Range(otherLru)) : SyncWith(otherLru, iter, v, 0, ttl)
    \/ \E enable \in BOOLEAN : SetAutoResize(enable, AutoMin, AutoMax)
    \/ CleanupSync

\* a whole maintenance pass, from taking the lock to releasing it
MaintenancePass ==
    /\ UNCHANGED exceptCache
    /\ UNCHANGED evictionCallback_
    /\ cleanupPc = "check"
    /\ mutexHolder = "none"
    /\ ~stopCleanup_
    /\ LET full == cleanupPass(CacheState, allocatedSize_, now)
           st == After(full) IN
       /\ cache_' = st.cache
       /\ lruList_' = st.lru
       /\ recency' = Recency(recency, DOMAIN st.cache, <<>>)
       /\ invoked' = Calls(Invocations(full.ev))
       /\ allocatedSize_' = IF autoResizeEnabled_ /\ ~Thrown(full.ev)
                            THEN autoResize(Cardinality(DOMAIN st.cache), allocatedSize_,
                                            minSize_, maxSize_)
                            ELSE allocatedSize_
       /\ cleanupPc' = IF Thrown(full.ev) THEN "terminated" ELSE cleanupPc
    /\ UNCHANGED <<autoResizeEnabled_, minSize_, maxSize_, stopCleanup_, mutexHolder,
                   cleanupMutexHeld, build, lastOp, clientPc, pendingKey, now>>

(***************************************************************************)
(* RecoveryManager: serialisation of a point (RecoveryPoint::toJson,       *)
(* fromJson) and the run-length coding of its state.                       *)
(***************************************************************************)
MaxByte == 1
MaxStateLen == 5
NumIds == 1
\* ids and the largest maxRecoveryPoints where the in-memory index is followed
NumIndexIds == 3
MaxPoints == 2
MaxStamp == 4

\* `int val` is kept modulo 2^KeptBits: the code reads bits 0..13 of it only, and
\* those do not depend on the higher bits, wrapped or not
KeptBits == 16
Pad == 64

Bytes == 0..MaxByte
Ids == 1..NumIds
IndexIds == 1..NumIndexIds

RECURSIVE SeqsUpTo(_, _)
SeqsUpTo(S, n) ==
    IF n = 0 THEN {<<>>}
    ELSE LET shorter == SeqsUpTo(S, n - 1) IN
         shorter \cup {Append(q, x) : q \in {r \in shorter : Len(r) = n - 1}, x \in S}

States == SeqsUpTo(Bytes, MaxStateLen)

Shl(val, n) == (val * 2^n) % 2^KeptBits

Shr(val, n) == val \div 2^n

\* while (valb >= 0) { encoded.push_back(base64_chars[(val >> valb) & 0x3F]); valb -= 6; }
RECURSIVE encodeDrain(_, _, _)
encodeDrain(val, valb, out) ==
    IF valb >= 0
    THEN encodeDrain(val, valb - 6, Append(out, Shr(val, valb) % 64))
    ELSE [val |-> val, valb |-> valb, out |-> out]

RECURSIVE encodeFrom(_, _, _)
encodeFrom(state, i, acc) ==
    IF i > Len(state) THEN acc
    ELSE encodeFrom(state, i + 1,
                    encodeDrain((Shl(acc.val, 8) + state[i]) % 2^KeptBits, acc.valb + 8, acc.out))

RECURSIVE padded(_)
padded(out) == IF Len(out) % 4 # 0 THEN padded(Append(out, Pad)) ELSE out

\* the "state" member written by toJson: indices into base64_chars, Pad for '='
base64Encode(state) ==
    IF state = <<>> THEN <<>>
    ELSE LET acc == encodeFrom(state, 1, [val |-> 0, valb |-> 0 - 6, out |-> <<>>])
             out == IF acc.valb > 0 - 6
                    THEN Append(acc.out, Shr(Shl(acc.val, 8), acc.valb + 8) % 64)
                    ELSE acc.out
         IN padded(out)

RECURSIVE decodeFrom(_, _, _)
decodeFrom(text, i, acc) ==
    IF i > Len(text) \/ text[i] = Pad THEN acc.out
    ELSE LET val  == (Shl(acc.val, 6) + text[i]) % 2^KeptBits
             valb == acc.valb + 6 IN
         IF valb >= 0
         THEN decodeFrom(text, i + 1, [val |-> val, valb |-> valb - 8,
                                       out |-> Append(acc.out, Shr(val, valb) % 256)])
         ELSE decodeFrom(text, i + 1, [val |-> val, valb |-> valb, out |-> acc.out])

\* the state read back by fromJson
base64Decode(text) == decodeFrom(text, 1, [val |-> 0, valb |-> 0 - 8, out |-> <<>>])

toJson(point) == [point EXCEPT !.state = base64Encode(point.state)]

fromJson(file) == [file EXCEPT !.state = base64Decode(file.state)]

\* while (i < data.size() && data[i] == data[i-1] && count < 255) { count++; i++; }
RECURSIVE runEnd(_, _, _)
runEnd(data, i, count) ==
    IF i <= Len(data) /\ data[i] = data[i - 1] /\ count < 255
    THEN runEnd(data, i + 1, count + 1)
    ELSE [i |-> i, count |-> count]

\* i is the 1-based position of the loop of compressState
RECURSIVE compressFrom(_, _, _)
compressFrom(data, i, out) ==
    IF i > Len(data) THEN out
    ELSE IF i > 1 /\ data[i] = data[i - 1]
    THEN LET run == runEnd(data, i, 1) IN
         compressFrom(data, IF run.i <= Len(data) THEN run.i ELSE run.i + 1,
                      out \o <<0, run.count, data[run.i - 1]>>)
    ELSE compressFrom(data, i + 1, Append(out, data[i]))

compressState(data) ==
    LET compressed == compressFrom(data, 1, <<>>) IN
    IF Len(compressed) < Len(data) THEN compressed ELSE data

RECURSIVE decompressFrom(_, _, _)
decompressFrom(data, i, out) ==
    IF i > Len(data) THEN out
    ELSE IF data[i] = 0 /\ i + 1 < Len(data)
    THEN decompressFrom(data, i + 3, out \o [j \in 1..data[i + 1] |-> data[i + 2]])
    ELSE decompressFrom(data, i + 1, Append(out, data[i]))

decompressState(data) == decompressFrom(data, 1, <<>>)

\* SHA-256 taken as collision-free: the digest determines its input; never empty
calculateChecksum(data) == <<Len(data)>> \o data

NoChecksum == <<>>

\* detail::StateValidator::validateState
validateState(state) == state # <<>> /\ calculateChecksum(state) # NoChecksum

(***************************************************************************)
(* RecoveryManager: operations.  The capture and restore callbacks are     *)
(* set; the capture callback returns `captured`, the restore callback      *)
(* returns `cbResult`.                                                     *)
(***************************************************************************)
\* op, id: the call; ret: its result; called, delivered: whether the restore
\* callback ran and with which bytes; mismatch: the loaded state does not hash
\* to the checksum stored with it
Call(op, id, ret, called, delivered, mismatch) ==
    [op |-> op, id |-> id, ret |-> ret, called |-> called, delivered |-> delivered,
     mismatch |-> mismatch]

NoCall == Call("none", None, FALSE, FALSE, <<>>, FALSE)

\* steady_clock::now() when a point is built: later than the timestamp of every
\* point made before it
now_(points, id) ==
    LET earlier == {points[j].timestamp : j \in DOMAIN points \ {id}} IN
    IF earlier = {} THEN 1 ELSE 1 + CHOOSE t \in earlier : \A u \in earlier : u <= t

\* the points sorted by timestamp; the oldest size - maxRecoveryPoints are erased
cleanupOldPoints(points, maxRecoveryPoints) ==
    IF Cardinality(DOMAIN points) <= maxRecoveryPoints THEN points
    ELSE LET newer(i) == {j \in DOMAIN points : points[j].timestamp > points[i].timestamp}
             kept == {i \in DOMAIN points : Cardinality(newer(i)) < maxRecoveryPoints}
         IN [i \in kept |-> points[i]]

\* variant: the point is entered in the index before it is saved
CreateRecoveryPoint_IndexFirst(id, captured, saved) ==
    /\ UNCHANGED exceptRecovery
    /\ now_(rmPoints, id) <= MaxStamp
    /\ LET point == [timestamp |-> now_(rmPoints, id), state |-> captured,
                     checksum |-> calculateChecksum(captured), isConsistent |-> TRUE,
                     size |-> Len(captured)]
       IN /\ rmPoints' = With(rmPoints, id, point)
          /\ IF saved
             THEN /\ rmFiles' = With(rmFiles, id, toJson(point))
                  /\ rmCaptured' = With(rmCaptured, id, captured)
                  /\ rmTampered' = rmTampered \ {id}
                  /\ rmLast' = Call("create", id, TRUE, FALSE, <<>>, FALSE)
             ELSE /\ rmLast' = Call("create", None, FALSE, FALSE, <<>>, FALSE)
                  /\ UNCHANGED <<rmFiles, rmCaptured, rmTampered>>
    /\ UNCHANGED rmConfig

\* `id` is the value of generatePointId, `saved` the result of saveCheckpoint
CreateRecoveryPoint(id, captured, saved) ==
    /\ UNCHANGED exceptRecovery
    /\ now_(rmPoints, id) <= MaxStamp
    /\ LET state == IF rmConfig.compression THEN compressState(captured) ELSE captured
           point == [timestamp    |-> now_(rmPoints, id),
                     state        |-> state,
                     checksum     |-> IF rmConfig.validation
                                      THEN calculateChecksum(captured) ELSE NoChecksum,
                     isConsistent |-> IF rmConfig.validation
                                      THEN validateState(captured) ELSE TRUE,
                     size         |-> Len(state)]
       IN IF saved
          THEN /\ rmFiles' = With(rmFiles, id, toJson(point))
               /\ rmPoints' = With(rmPoints, id, point)
               /\ rmCaptured' = With(rmCaptured, id, captured)
               /\ rmTampered' = rmTampered \ {id}
               /\ rmLast' = Call("create", id, TRUE, FALSE, <<>>, FALSE)
          ELSE /\ rmLast' = Call("create", None, FALSE, FALSE, <<>>, FALSE)
               /\ UNCHANGED <<rmFiles, rmPoints, rmCaptured, rmTampered>>
    /\ UNCHANGED rmConfig

RestoreFromPoint(id, cbResult) ==
    /\ UNCHANGED exceptRecovery
    /\ IF id \notin DOMAIN rmFiles
       THEN rmLast' = Call("restore", id, FALSE, FALSE, <<>>, FALSE)
       ELSE LET point == fromJson(rmFiles[id])
                state == IF rmConfig.compression THEN decompressState(point.state)
                         ELSE point.state
                mismatch == calculateChecksum(state) # point.checksum
            IN IF rmConfig.validation /\ ~validateState(state)
               THEN rmLast' = Call("restore", id, FALSE, FALSE, <<>>, mismatch)
               ELSE rmLast' = Call("restore", id, cbResult, TRUE, state, mismatch)
    /\ UNCHANGED <<rmConfig, rmFiles, rmPoints, rmCaptured, rmTampered>>

DeleteRecoveryPoint(id) ==
    /\ UNCHANGED exceptRecovery
    /\ rmPoints' = Without(rmPoints, id)
    /\ rmFiles' = Without(rmFiles, id)
    /\ rmCaptured' = Without(rmCaptured, id)
    /\ rmTampered' = rmTampered \ {id}
    /\ rmLast' = NoCall
    /\ UNCHANGED rmConfig

\* the file <id>.json is changed on disk: the first byte of its state is replaced
CorruptCheckpoint(id, byte) ==
    /\ UNCHANGED exceptRecovery
    /\ id \in DOMAIN rmFiles
    /\ LET state == base64Decode(rmFiles[id].state) IN
       /\ state # <<>>
       /\ byte # state[1]
       /\ rmFiles' = [rmFiles EXCEPT ![id].state = base64Encode(<<byte>> \o Tail(state))]
    /\ rmTampered' = rmTampered \cup {id}
    /\ rmLast' = NoCall
    /\ UNCHANGED <<rmConfig, rmPoints, rmCaptured>>

\* RecoveryManager::setConfiguration: the configuration is replaced and the index cut
setConfiguration(config) ==
    /\ UNCHANGED exceptRecovery
    /\ rmConfig' = config
    /\ rmPoints' = cleanupOldPoints(rmPoints, config.maxRecoveryPoints)
    /\ rmLast' = NoCall
    /\ UNCHANGED <<rmFiles, rmCaptured, rmTampered>>

InitRecovery ==
    /\ rmConfig \in [compression : BOOLEAN, validation : BOOLEAN,
                     maxRecoveryPoints : {MaxPoints}]
    /\ rmFiles = EmptyMap
    /\ rmPoints = EmptyMap
    /\ rmCaptured = EmptyMap
    /\ rmTampered = {}
    /\ rmLast = NoCall

RecoveryUnused ==
    /\ rmConfig = [compression |-> FALSE, validation |-> FALSE, maxRecoveryPoints |-> MaxPoints]
    /\ rmFiles = EmptyMap
    /\ rmPoints = EmptyMap
    /\ rmCaptured = EmptyMap
    /\ rmTampered = {}
    /\ rmLast = NoCall

CacheUnused == InitCacheWith({"6194c3d"}) /\ allocatedSize_ = 0

(***************************************************************************)
(* LoadBalancer.  Usages and efficiencies are in thousandths, bandwidth    *)
(* and disk I/O in the units of KernelMetrics, energy in watts.  Resource  *)
(* scores are scaled by 10^6, workload scores by 10^7, so the comparisons  *)
(* of the code are exact.  Tasks carry estimatedMemoryUsage = 0.           *)
(***************************************************************************)
MaxKernels == 2
MaxTasks == 3
MaxDecisions == 3
MaxWeightSum == 2000
HighPriorityThreshold == 7
LowPriority == HighPriorityThreshold - 1

resourceThreshold_ == 800

Strategies == {"ResourceAware", "WorkloadSpecific", "HybridAdaptive", "PriorityAdaptive",
               "LeastLoaded", "RoundRobin"}

KernelMetrics(cpu, mem, cpuEff) ==
    [cpuUsage |-> cpu, memoryUsage |-> mem, networkBandwidth |-> 0, diskIO |-> 0,
     energyConsumption |-> 0, cpuTaskEfficiency |-> cpuEff, ioTaskEfficiency |-> 500,
     memoryTaskEfficiency |-> 500, networkTaskEfficiency |-> 500]

\* an idle kernel, one saturated on cpu and memory, one saturated on cpu, and
\* one that differs from the idle kernel in its cpu usage only
MetricsProfiles == {KernelMetrics(100, 100, 800), KernelMetrics(950, 950, 200),
                    KernelMetrics(950, 100, 500), KernelMetrics(950, 100, 800)}

TaskDescriptor(priority, type) == [priority |-> priority, type |-> type]

\* a MIXED task below the priority threshold, a CPU_INTENSIVE one at it
TaskKinds == {TaskDescriptor(LowPriority, "MIXED"),
              TaskDescriptor(HighPriorityThreshold, "CPU_INTENSIVE")}

Abs(x) == IF x < 0 THEN 0 - x ELSE x

\* least index whose score is the minimum: the loop keeps the first strict improvement
ArgMin(scores) ==
    CHOOSE i \in DOMAIN scores :
        /\ \A j \in DOMAIN scores : scores[i] <= scores[j]
        /\ \A j \in DOMAIN scores : j < i => scores[j] > scores[i]

calculateResourceScore(m, task) ==
    (1000 - m.cpuUsage) * cpuWeight_ + (1000 - m.memoryUsage) * memoryWeight_
        + m.networkBandwidth * networkWeight_ + (100 - m.energyConsumption) * 10 * energyWeight_

calculateWorkloadScore(m, task) ==
    LET efficiencyScore ==
            CASE task.type = "CPU_INTENSIVE"     -> m.cpuTaskEfficiency * (10000 - 3 * m.cpuUsage)
              [] task.type = "IO_INTENSIVE"      -> m.ioTaskEfficiency * (10000 + m.diskIO)
              [] task.type = "MEMORY_INTENSIVE"  -> m.memoryTaskEfficiency * (10000 - 3 * m.memoryUsage)
              [] task.type = "NETWORK_INTENSIVE" -> m.networkTaskEfficiency * (10000 + m.networkBandwidth)
              [] OTHER -> (m.cpuTaskEfficiency + m.ioTaskEfficiency + m.memoryTaskEfficiency
                           + m.networkTaskEfficiency) * 2500
    IN 10000000 - Max2(0, Min2(10000000, efficiencyScore))

\* the result of a selection: the kernel index (from 0) and the new rrIdx
Selected(kernel, rr) == [kernel |-> kernel, rrIdx |-> rr]

\* variant: the tie-break reads the cursor and does not advance it
selectByResourceAware_NoAdvance(metrics, task, rr) ==
    LET score(i) == calculateResourceScore(metrics[i], task)
        allEqual == \A i \in 2..Len(metrics) : ~(Abs(score(i) - score(1)) > 1000)
    IN IF allEqual
       THEN Selected(rr % Len(metrics), rr)
       ELSE Selected(ArgMin([i \in DOMAIN metrics |-> score(i)]) - 1, rr)

\* variant: the tie-break takes the cursor as it is
selectByResourceAware_NoModulo(metrics, task, rr) ==
    LET score(i) == calculateResourceScore(metrics[i], task)
        allEqual == \A i \in 2..Len(metrics) : ~(Abs(score(i) - score(1)) > 1000)
    IN IF allEqual
       THEN Selected(rr, (rr + 1) % Len(metrics))
       ELSE Selected(ArgMin([i \in DOMAIN metrics |-> score(i)]) - 1, rr)

selectByResourceAware(metrics, task, rr) ==
    LET score(i) == calculateResourceScore(metrics[i], task)
        allEqual == \A i \in 2..Len(metrics) : ~(Abs(score(i) - score(1)) > 1000)
    IN IF allEqual
       THEN Selected(rr % Len(metrics), (rr + 1) % Len(metrics))
       ELSE Selected(ArgMin([i \in DOMAIN metrics |-> score(i)]) - 1, rr)

selectByWorkloadSpecific(metrics, task, rr) ==
    Selected(ArgMin([i \in DOMAIN metrics |-> calculateWorkloadScore(metrics[i], task)]) - 1, rr)

selectByHybridAdaptive(metrics, task, rr) ==
    LET res(i) == calculateResourceScore(metrics[i], task)
        wl(i) == calculateWorkloadScore(metrics[i], task)
        allEqual == \A i \in 2..Len(metrics) :
                        ~(Abs(res(i) - res(1)) > 1000 \/ Abs(wl(i) - wl(1)) > 10000)
        resourceWeight(i) == IF res(i) > resourceThreshold_ * 1000 THEN 8
                             ELSE IF task.type # "MIXED" THEN 3 ELSE 6
        combined(i) == resourceWeight(i) * res(i) * 10 + (10 - resourceWeight(i)) * wl(i)
    IN IF allEqual
       THEN Selected(rr % Len(metrics), (rr + 1) % Len(metrics))
       ELSE Selected(ArgMin([i \in DOMAIN metrics |-> combined(i)]) - 1, rr)

\* avgCpuUsage > 0.9 || avgMemoryUsage > 0.9
RECURSIVE Sum(_)
Sum(q) == IF q = <<>> THEN 0 ELSE q[1] + Sum(Tail(q))

shouldSwitchStrategy(metrics) ==
    \/ Sum([i \in DOMAIN metrics |-> metrics[i].cpuUsage]) > 900 * Len(metrics)
    \/ Sum([i \in DOMAIN metrics |-> metrics[i].memoryUsage]) > 900 * Len(metrics)

\* variant: only priorities above the threshold count as high
isHighPriority_Above(task) == task.priority > HighPriorityThreshold

\* if (task.priority >= 7) highPriority.push_back(task); else lowPriority.push_back(task);
isHighPriority(task) == task.priority >= HighPriorityThreshold

ScoresTie(scores, tolerance) ==
    \A i, j \in DOMAIN scores : Abs(scores[i] - scores[j]) <= tolerance

\* one pass of a dispatch loop over the input positions `idx`; b holds rrIdx, the
\* counters and the scheduleTask calls made so far
RECURSIVE dispatchLoop(_, _, _, _, _)
dispatchLoop(idx, tasks, metrics, strat, b) ==
    IF idx = <<>> THEN b
    ELSE LET task == tasks[idx[1]]
             res  == [i \in DOMAIN metrics |-> calculateResourceScore(metrics[i], task)]
             wl   == [i \in DOMAIN metrics |-> calculateWorkloadScore(metrics[i], task)]
             \* the scores the strategy selects by are all within 0.001 of each other
             tie  == CASE strat = "WorkloadSpecific" -> ScoresTie(wl, 10000)
                       [] strat = "HybridAdaptive"   -> ScoresTie(res, 1000) /\ ScoresTie(wl, 10000)
                       [] OTHER                      -> ScoresTie(res, 1000)
             sel  == CASE strat = "ResourceAware"    -> selectByResourceAware(metrics, task, b.rrIdx)
                       [] strat = "WorkloadSpecific" -> selectByWorkloadSpecific(metrics, task, b.rrIdx)
                       [] strat = "HybridAdaptive"   -> selectByHybridAdaptive(metrics, task, b.rrIdx)
                       [] OTHER                      -> selectByResourceAware(metrics, task, b.rrIdx)
         IN dispatchLoop(Tail(idx), tasks, metrics, strat,
                [rrIdx |-> sel.rrIdx,
                 ra    |-> b.ra + (IF strat = "ResourceAware" THEN 1 ELSE 0),
                 ws    |-> b.ws + (IF strat = "WorkloadSpecific" THEN 1 ELSE 0),
                 total |-> b.total + 1,
                 calls |-> Append(b.calls, [task |-> idx[1], kernel |-> sel.kernel,
                                            priority |-> task.priority, tie |-> tie,
                                            kernels |-> Len(metrics)])])

\* called: the call got past its guard; configured: strategyEnum on entry;
\* used: the strategy the dispatch loops ran with; calls: the scheduleTask calls;
\* counted: by how much the per-strategy counters grew together
\* cursor: rrIdx on entry
Balanced(called, tasks, metrics, cursor, saturated, configured, used, calls, counted) ==
    [called |-> called, tasks |-> tasks, metrics |-> metrics, cursor |-> cursor,
     saturated |-> saturated, configured |-> configured, used |-> used, calls |-> calls,
     counted |-> counted]

NoBalance == Balanced(FALSE, <<>>, <<>>, 0, FALSE, "", "", <<>>, 0)

weightVars == <<cpuWeight_, memoryWeight_, networkWeight_, energyWeight_>>

balance(numKernels, tasks, metrics) ==
    /\ UNCHANGED exceptBalancer
    /\ totalDecisions_ + Len(tasks) <= MaxDecisions
    /\ IF numKernels = 0 \/ tasks = <<>> \/ Len(metrics) # numKernels
       THEN /\ lbLast' = NoBalance
            /\ UNCHANGED <<strategyEnum, rrIdx, resourceAwareDecisions_,
                           workloadSpecificDecisions_, totalDecisions_, weightVars>>
       ELSE LET strat == IF shouldSwitchStrategy(metrics)
                         THEN (IF strategyEnum = "ResourceAware" THEN "WorkloadSpecific"
                               ELSE "ResourceAware")
                         ELSE strategyEnum
                positions == [i \in DOMAIN tasks |-> i]
                highPriority == SelectSeq(positions, LAMBDA i : isHighPriority(tasks[i]))
                lowPriority  == SelectSeq(positions, LAMBDA i : ~isHighPriority(tasks[i]))
                b0 == [rrIdx |-> rrIdx, ra |-> resourceAwareDecisions_,
                       ws |-> workloadSpecificDecisions_, total |-> totalDecisions_,
                       calls |-> <<>>]
                b1 == dispatchLoop(highPriority, tasks, metrics, strat, b0)
                b2 == dispatchLoop(lowPriority, tasks, metrics, strat, b1)
            IN /\ strategyEnum' = strat
               /\ rrIdx' = b2.rrIdx
               /\ resourceAwareDecisions_' = b2.ra
               /\ workloadSpecificDecisions_' = b2.ws
               /\ totalDecisions_' = b2.total
               /\ UNCHANGED weightVars
               /\ lbLast' = Balanced(TRUE, tasks, metrics, rrIdx, shouldSwitchStrategy(metrics),
                                     strategyEnum,
                                     strat, b2.calls,
                                     (resourceAwareDecisions_' + workloadSpecificDecisions_')
                                       - (resourceAwareDecisions_ + workloadSpecificDecisions_))

setStrategy(s) ==
    /\ UNCHANGED exceptBalancer
    /\ strategyEnum' = s
    /\ lbLast' = NoBalance
    /\ UNCHANGED <<rrIdx, resourceAwareDecisions_, workloadSpecificDecisions_, totalDecisions_,
                   weightVars>>

\* the four arguments are stored as they are
setResourceWeights(cpuWeight, memoryWeight, networkWeight, energyWeight) ==
    /\ UNCHANGED exceptBalancer
    /\ cpuWeight_' = cpuWeight
    /\ memoryWeight_' = memoryWeight
    /\ networkWeight_' = networkWeight
    /\ energyWeight_' = energyWeight
    /\ lbLast' = NoBalance
    /\ UNCHANGED <<strategyEnum, rrIdx, resourceAwareDecisions_, workloadSpecificDecisions_,
                   totalDecisions_>>

InitBalancer ==
    /\ strategyEnum = "HybridAdaptive"
    /\ rrIdx = 0
    /\ resourceAwareDecisions_ = 0
    /\ workloadSpecificDecisions_ = 0
    /\ totalDecisions_ = 0
    /\ cpuWeight_ = 300
    /\ memoryWeight_ = 250
    /\ networkWeight_ = 250
    /\ energyWeight_ = 200
    /\ lbLast = NoBalance

(***************************************************************************)
(* ThreadPool.  ThreadPool.cpp is not part of the sources; the pool is     *)
(* taken from its declaration (ThreadPool.hpp) and its contract: a bounded *)
(* FIFO queue, workers that take closures from it, waitForCompletion that  *)
(* blocks until the queue is empty and no worker executes, stop that lets  *)
(* the workers drain the queue and exit, restart after stop.               *)
(***************************************************************************)
NumWorkers == 2
NumClosures == 3
QueueSize == 2

Workers == 1..NumWorkers
Closures == 1..NumClosures
Idle == 0
Exited == NumClosures + 1

Executing(workers) == {workers[w] : w \in DOMAIN workers} \cap Closures

\* waitForCompletion may return: the queue is empty and no worker is executing
poolIdle_QueueOnly(queue, workers) == queue = <<>>

poolIdle(queue, workers) == queue = <<>> /\ Executing(workers) = {}

\* a worker leaves its loop: stop was called and nothing is left in the queue
workerMayExit_AtOnce(stopping, queue) == stopping

workerMayExit(stopping, queue) == stopping /\ queue = <<>>

\* enqueue by any thread, under the queue mutex; each closure is submitted once
enqueue(task) ==
    /\ UNCHANGED exceptPool
    /\ poolRuns[task] = 0
    /\ task \notin Range(poolQueue) \cup Executing(poolWorkers)
    /\ IF poolStopping
       THEN poolEvent' = "Stopped" /\ UNCHANGED poolQueue
       ELSE IF Len(poolQueue) >= QueueSize
       THEN poolEvent' = "QueueFull" /\ UNCHANGED poolQueue
       ELSE poolEvent' = "accepted" /\ poolQueue' = Append(poolQueue, task)
    /\ UNCHANGED <<poolWorkers, poolStopping, poolRuns, poolWaitPc, poolWaitFor, poolStopPc,
                   poolStopFor>>

workerTakes(w) ==
    /\ UNCHANGED exceptPool
    /\ poolWorkers[w] = Idle
    /\ poolQueue # <<>>
    /\ poolWorkers' = [poolWorkers EXCEPT ![w] = Head(poolQueue)]
    /\ poolQueue' = Tail(poolQueue)
    /\ poolEvent' = ""
    /\ UNCHANGED <<poolStopping, poolRuns, poolWaitPc, poolWaitFor, poolStopPc, poolStopFor>>

workerFinishes(w) ==
    /\ UNCHANGED exceptPool
    /\ poolWorkers[w] \in Closures
    /\ poolRuns' = [poolRuns EXCEPT ![poolWorkers[w]] = @ + 1]
    /\ poolWorkers' = [poolWorkers EXCEPT ![w] = Idle]
    /\ poolEvent' = ""
    /\ UNCHANGED <<poolQueue, poolStopping, poolWaitPc, poolWaitFor, poolStopPc, poolStopFor>>

workerExits(w) ==
    /\ UNCHANGED exceptPool
    /\ poolWorkers[w] = Idle
    /\ workerMayExit(poolStopping, poolQueue)
    /\ poolWorkers' = [poolWorkers EXCEPT ![w] = Exited]
    /\ poolEvent' = ""
    /\ UNCHANGED <<poolQueue, poolStopping, poolRuns, poolWaitPc, poolWaitFor, poolStopPc,
                   poolStopFor>>

\* the closures accepted so far and not yet finished, and those finished
Submitted == Range(poolQueue) \cup Executing(poolWorkers) \cup {c \in Closures : poolRuns[c] > 0}

waitForCompletionCall ==
    /\ UNCHANGED exceptPool
    /\ poolWaitPc = "idle"
    /\ poolWaitPc' = "waiting"
    /\ poolWaitFor' = Submitted
    /\ poolEvent' = ""
    /\ UNCHANGED <<poolQueue, poolWorkers, poolStopping, poolRuns, poolStopPc, poolStopFor>>

waitForCompletionReturn ==
    /\ UNCHANGED exceptPool
    /\ poolWaitPc = "waiting"
    /\ poolIdle(poolQueue, poolWorkers)
    /\ poolWaitPc' = "idle"
    /\ poolEvent' = "waitForCompletion returned"
    /\ UNCHANGED <<poolQueue, poolWorkers, poolStopping, poolRuns, poolWaitFor, poolStopPc,
                   poolStopFor>>

stopCall ==
    /\ UNCHANGED exceptPool
    /\ poolStopPc = "idle"
    /\ ~poolStopping
    /\ poolStopping' = TRUE
    /\ poolStopPc' = "joining"
    /\ poolStopFor' = Range(poolQueue)
    /\ poolEvent' = ""
    /\ UNCHANGED <<poolQueue, poolWorkers, poolRuns, poolWaitPc, poolWaitFor>>

\* stop joins the workers
stopReturn ==
    /\ UNCHANGED exceptPool
    /\ poolStopPc = "joining"
    /\ \A w \in Workers : poolWorkers[w] = Exited
    /\ poolStopPc' = "idle"
    /\ poolEvent' = "stop returned"
    /\ UNCHANGED <<poolQueue, poolWorkers, poolStopping, poolRuns, poolWaitPc, poolWaitFor,
                   poolStopFor>>

\* restart is valid only after stop has returned
restart ==
    /\ UNCHANGED exceptPool
    /\ poolStopping
    /\ poolStopPc = "idle"
    /\ poolStopping' = FALSE
    /\ poolWorkers' = [w \in Workers |-> Idle]
    /\ poolEvent' = ""
    /\ UNCHANGED <<poolQueue, poolRuns, poolWaitPc, poolWaitFor, poolStopPc, poolStopFor>>

InitPool ==
    /\ poolQueue = <<>>
    /\ poolWorkers = [w \in Workers |-> Idle]
    /\ poolStopping = FALSE
    /\ poolRuns = [c \in Closures |-> 0]
    /\ poolWaitPc = "idle"
    /\ poolWaitFor = {}
    /\ poolStopPc = "idle"
    /\ poolStopFor = {}
    /\ poolEvent = ""

PoolUnused == InitPool

NextPool ==
    \/ \E task \in Closures : enqueue(task)
    \/ \E w \in Workers : workerTakes(w)
    \/ \E w \in Workers : workerFinishes(w)
    \/ \E w \in Workers : workerExits(w)
    \/ waitForCompletionCall
    \/ waitForCompletionReturn
    \/ stopCall
    \/ stopReturn
    \/ restart

(***************************************************************************)
(* Component lifecycle: construction, initialize, shutdown, reset and the  *)
(* task operations of the kernel variants, the CacheManager and the       *)
(* RecoveryManager.  A component is its state flag (running or             *)
(* initialized), the set of owned sub-components whose pointers are set,   *)
(* the state of its thread pool where shutdown stops it, and its children. *)
(***************************************************************************)
MaxChildren == 1
MaxCalls == 3
\* threads that call restoreFromPoint
NumCallers == 2
\* tasks enqueued on the OrchestrationKernel, and dispatches followed
MaxEnqueued == 2
MaxDispatched == 3
Callers == 1..NumCallers

\* flag: running / running_ / initialized; owned: the sub-component pointers that are
\* set; pool: the thread pool a RecoveryManager stops; queued: the thread pool's queue
\* is not empty; cached: the local cache holds task data; points: a recovery point was
\* created through the component; metrics: the extended metrics were updated; hung:
\* the calling thread is blocked inside a call for good; phase: the last of
\* construction, successful initialize, shutdown, reset; recoveryInProgress: the
\* RecoveryManager's flag; restoring: the threads inside restoreFromPoint;
\* taskDescriptors: the OrchestrationKernel's pending tasks, numbered as enqueued;
\* enqueued: how many there were; dispatched: the tasks handed to a target kernel
Component(flag, owned) ==
    [flag |-> flag, owned |-> owned, pool |-> "running", children |-> <<>>, queued |-> FALSE,
     cached |-> FALSE, points |-> FALSE, metrics |-> FALSE, hung |-> FALSE, phase |-> "Created",
     recoveryInProgress |-> FALSE, restoring |-> {},
     taskDescriptors |-> <<>>, enqueued |-> 0, dispatched |-> <<>>,
     results |-> <<>>, clockMs |-> 0]

\* the state the constructor leaves
Constructed(c, flag) ==
    CASE c = "CoreKernel" -> Component(FALSE, {"dynamicCache"})
      [] c = "MicroKernel" ->
           Component(FALSE, {"platformOptimizer", "dynamicCache", "threadPool", "recoveryManager"})
      [] c = "ParentKernel" -> Component(FALSE, {})
      [] c = "ArchitecturalKernel" -> Component(FALSE, {"hardwareAccelerator", "dynamicCache"})
      [] c = "ComputationalKernel" ->
           Component(FALSE, {"threadPool", "recoveryManager", "dynamicCache", "hardwareAccelerator"})
      [] c = "CryptoMicroKernel" ->
           Component(FALSE, {"threadPool", "recoveryManager", "dynamicCache", "armDriver"})
      [] c = "OrchestrationKernel" ->
           Component(FALSE, {"loadBalancer", "threadPool", "recoveryManager", "dynamicCache"})
      [] c = "SmartKernel" -> Component(FALSE, {})
      [] c = "CacheManager" -> Component(FALSE, {})
      \* std::atomic<bool> initialized has no initialiser: its first value is indeterminate
      [] c = "RecoveryManager" -> Component(flag, {})

\* a cache that is gone holds nothing; the phase follows the call
Settled(k, phase) ==
    [k EXCEPT !.cached = @ /\ "dynamicCache" \in k.owned, !.queued = @ /\ "threadPool" \in k.owned,
              !.phase = phase]

\* stop(): the workers drain the queue and exit; the pool is stopped
ThreadPool_stop(pool) == "stopped"

\* variant: shutdown of a stopped kernel sets the running flag again
CoreKernel_shutdown_Toggles(k) ==
    [k EXCEPT !.flag = ~k.flag,
              !.owned = @ \ {"resourceManager", "performanceMonitor", "dynamicCache",
                             "recoveryManager", "threadPool", "platformOptimizer"}]

CoreKernel_shutdown(k) ==
    IF ~k.flag THEN k
    ELSE [k EXCEPT !.owned = @ \ {"resourceManager", "performanceMonitor", "dynamicCache",
                                  "recoveryManager", "threadPool", "platformOptimizer"},
                   !.flag = FALSE]

MicroKernel_shutdown(k) == [k EXCEPT !.flag = FALSE, !.owned = @ \ {"dynamicCache"}]

ArchitecturalKernel_shutdown(k) ==
    [k EXCEPT !.owned = @ \ {"dynamicCache", "hardwareAccelerator"}, !.flag = FALSE]

ComputationalKernel_shutdown(k) ==
    [k EXCEPT !.owned = @ \ {"dynamicCache", "recoveryManager", "threadPool", "hardwareAccelerator"},
              !.flag = FALSE, !.results = <<>>]

CryptoMicroKernel_shutdown(k) ==
    [k EXCEPT !.owned = @ \ {"dynamicCache", "recoveryManager", "threadPool", "armDriver"},
              !.flag = FALSE]

\* no state flag is reset here
OrchestrationKernel_shutdown(k) ==
    [k EXCEPT !.owned = @ \ {"dynamicCache", "recoveryManager", "threadPool"}]

SmartKernel_shutdown(k) ==
    IF ~k.flag THEN k
    ELSE [k EXCEPT !.owned = @ \ {"dynamicCache", "recoveryManager", "threadPool",
                                  "performanceMonitor", "resourceManager", "adaptiveController"},
                   !.flag = FALSE]

CacheManager_shutdown(k) ==
    IF ~k.flag THEN k ELSE [k EXCEPT !.owned = @ \ {"dynamicCache"}, !.flag = FALSE]

\* `initialized` is left as it is
RecoveryManager_shutdown(k) ==
    IF "threadPool" \in k.owned THEN [k EXCEPT !.pool = ThreadPool_stop(@)] ELSE k

\* child->shutdown() through IKernel
childShutdown(c, k) ==
    CASE c = "CoreKernel"  -> Settled(CoreKernel_shutdown(k), "ShutDown")
      [] c = "MicroKernel" -> Settled(MicroKernel_shutdown(k), "ShutDown")
      [] OTHER             -> k

RECURSIVE shutdownChildren(_, _)
shutdownChildren(children, cs) ==
    IF children = <<>> THEN cs
    ELSE shutdownChildren(Tail(children),
                          [cs EXCEPT ![Head(children)] = childShutdown(Head(children), @)])

\* the statements of ParentKernel::shutdown in the order they run: the owned
\* components whose pointers are set, then the loop over the children
ParentKernel_teardownOrder(k) ==
    LET ownOrder == <<"energyController", "orchestrationKernel", "recoveryManager",
                      "threadPool", "loadBalancer", "platformOptimizer", "dynamicCache">>
        released == SelectSeq(ownOrder, LAMBDA x : x \in k.owned)
    IN [i \in 1..Len(released) |-> [kind |-> "own", name |-> released[i]]]
       \o [i \in 1..Len(k.children) |-> [kind |-> "child", name |-> k.children[i]]]

ParentKernel_shutdown(cs) ==
    LET own == [cs EXCEPT !["ParentKernel"].flag = FALSE,
                          !["ParentKernel"].owned = @ \ {"energyController", "orchestrationKernel",
                                "recoveryManager", "threadPool", "loadBalancer",
                                "platformOptimizer", "dynamicCache"}]
    IN [shutdownChildren(cs["ParentKernel"].children, own) EXCEPT !["ParentKernel"].children = <<>>]

\* ret: "true", "false", "void", "blocked" (the call never returns), "throws", "crash";
\* phase: the component's phase when the call was made; changed: the call changed state
LcCall(component, op, ret, phase, changed) ==
    [component |-> component, op |-> op, ret |-> ret, phase |-> phase, changed |-> changed]

NoLcCall == LcCall("", "", "", "", FALSE)

ShutdownRun(component, calls, after) == [component |-> component, calls |-> calls, after |-> after]

NoShutdown == ShutdownRun("", 0, <<>>)

shutdown(c) ==
    /\ UNCHANGED exceptLifecycle
    /\ c \in DOMAIN components
    /\ ~components[c].hung
    /\ LET after ==
              CASE c = "ParentKernel"        -> ParentKernel_shutdown(components)
                [] c = "CoreKernel"          -> [components EXCEPT ![c] = CoreKernel_shutdown(@)]
                [] c = "MicroKernel"         -> [components EXCEPT ![c] = MicroKernel_shutdown(@)]
                [] c = "ArchitecturalKernel" -> [components EXCEPT ![c] = ArchitecturalKernel_shutdown(@)]
                [] c = "ComputationalKernel" -> [components EXCEPT ![c] = ComputationalKernel_shutdown(@)]
                [] c = "CryptoMicroKernel"   -> [components EXCEPT ![c] = CryptoMicroKernel_shutdown(@)]
                [] c = "OrchestrationKernel" -> [components EXCEPT ![c] = OrchestrationKernel_shutdown(@)]
                [] c = "SmartKernel"         -> [components EXCEPT ![c] = SmartKernel_shutdown(@)]
                [] c = "CacheManager"        -> [components EXCEPT ![c] = CacheManager_shutdown(@)]
                [] c = "RecoveryManager"     -> [components EXCEPT ![c] = RecoveryManager_shutdown(@)]
       IN components' = [after EXCEPT ![c] = Settled(@, "ShutDown")]
    /\ lcLast' = IF lcLast.component = c
                 THEN [lcLast EXCEPT !.calls = Min2(@ + 1, MaxCalls)]
                 ELSE ShutdownRun(c, 1, components')
    /\ lcCall' = LET call == LcCall(c, "shutdown", "void", components[c].phase,
                                    components' # components)
                 IN IF c # "ParentKernel" THEN call
                    ELSE call @@ [children |-> components[c].children,
                                  events |-> ParentKernel_teardownOrder(components[c])]

\* the state a call leaves and what it returns; "failed": false because a step outside
\* the component failed; "crash": a null pointer was dereferenced
Result(k, ret) == [k |-> k, ret |-> ret]

CoreKernel_initialize(k) ==
    IF k.flag THEN Result(k, "false")
    ELSE Result([k EXCEPT !.owned = @ \cup {"performanceMonitor", "resourceManager"},
                          !.flag = TRUE], "true")

MicroKernel_initialize(k) ==
    Result([k EXCEPT !.owned = @ \cup {"recoveryManager", "dynamicCache"}, !.flag = TRUE], "true")

ArchitecturalKernel_initialize(k) ==
    IF {"hardwareAccelerator", "dynamicCache"} \subseteq k.owned
    THEN Result([k EXCEPT !.flag = TRUE], "true")
    ELSE Result(k, "crash")

\* ok: recoveryManager->initialize() returned true
ComputationalKernel_initialize(k, ok) ==
    IF ~({"hardwareAccelerator", "recoveryManager", "dynamicCache"} \subseteq k.owned)
    THEN Result(k, "crash")
    ELSE IF ok THEN Result([k EXCEPT !.flag = TRUE], "true") ELSE Result(k, "failed")

CryptoMicroKernel_initialize(k, ok) ==
    IF ~({"armDriver", "recoveryManager", "dynamicCache"} \subseteq k.owned)
    THEN Result(k, "crash")
    ELSE IF ok THEN Result([k EXCEPT !.flag = TRUE], "true") ELSE Result(k, "failed")

\* no state flag is set here
OrchestrationKernel_initialize(k, ok) ==
    IF ~({"loadBalancer", "recoveryManager", "dynamicCache"} \subseteq k.owned)
    THEN Result(k, "crash")
    ELSE IF ok THEN Result(k, "true") ELSE Result(k, "failed")

SmartKernel_initialize(k) ==
    IF k.flag THEN Result(k, "true")
    ELSE Result([k EXCEPT !.owned = @ \cup {"performanceMonitor", "resourceManager",
                                            "adaptiveController", "threadPool",
                                            "recoveryManager", "dynamicCache"},
                          !.flag = TRUE], "true")

\* ok: creating the cache and its directories did not throw
CacheManager_initialize(k, ok) ==
    IF k.flag THEN Result(k, "true")
    ELSE IF ok THEN Result([k EXCEPT !.owned = @ \cup {"dynamicCache"}, !.flag = TRUE], "true")
    ELSE Result(k, "failed")

\* ok: the storage directory could be created and the configuration is valid
RecoveryManager_initialize(k, ok) ==
    IF k.flag THEN Result(k, "true")
    ELSE IF ok THEN Result([k EXCEPT !.owned = @ \cup {"threadPool"}, !.pool = "running",
                                     !.flag = TRUE], "true")
    ELSE Result(k, "failed")

\* child->initialize() through IKernel; a child that returns true is initialized
childInitialize(c, k) ==
    LET r == CASE c = "CoreKernel"  -> CoreKernel_initialize(k)
               [] c = "MicroKernel" -> MicroKernel_initialize(k)
               [] OTHER             -> Result(k, "true")
    IN IF r.ret = "true" THEN Result(Settled(r.k, "Initialized"), "true") ELSE r

\* the loop over children stops at the first child whose initialize returns false
RECURSIVE initializeChildren(_, _)
initializeChildren(children, cs) ==
    IF children = <<>> THEN Result(cs, "true")
    ELSE LET r == childInitialize(Head(children), cs[Head(children)])
             next == [cs EXCEPT ![Head(children)] = r.k]
         IN IF r.ret = "true" THEN initializeChildren(Tail(children), next)
            ELSE Result([next EXCEPT !["ParentKernel"].flag = FALSE], "false")

ParentKernel_initialize(cs) ==
    initializeChildren(cs["ParentKernel"].children,
        [cs EXCEPT !["ParentKernel"].flag = TRUE,
                   !["ParentKernel"].owned = @ \cup {"energyController", "loadBalancer",
                         "platformOptimizer", "dynamicCache", "threadPool"}])

\* proceeds: a null pointer dereference either ends the process or the build runs on
initialize(c, ok, proceeds) ==
    /\ UNCHANGED exceptLifecycle
    /\ c \in DOMAIN components
    /\ ~components[c].hung
    /\ LET k == components[c]
           r == CASE c = "ParentKernel"        -> ParentKernel_initialize(components)
                  [] c = "CoreKernel"          -> CoreKernel_initialize(k)
                  [] c = "MicroKernel"         -> MicroKernel_initialize(k)
                  [] c = "ArchitecturalKernel" -> ArchitecturalKernel_initialize(k)
                  [] c = "ComputationalKernel" -> ComputationalKernel_initialize(k, ok)
                  [] c = "CryptoMicroKernel"   -> CryptoMicroKernel_initialize(k, ok)
                  [] c = "OrchestrationKernel" -> OrchestrationKernel_initialize(k, ok)
                  [] c = "SmartKernel"         -> SmartKernel_initialize(k)
                  [] c = "CacheManager"        -> CacheManager_initialize(k, ok)
                  [] c = "RecoveryManager"     -> RecoveryManager_initialize(k, ok)
           after == IF c = "ParentKernel" THEN r.k ELSE [components EXCEPT ![c] = r.k]
       IN /\ components' =
                CASE r.ret = "true"  -> [after EXCEPT ![c] = Settled(@, "Initialized")]
                  [] r.ret = "crash" -> IF proceeds
                                        THEN [after EXCEPT ![c].flag = (c # "OrchestrationKernel")]
                                        ELSE [after EXCEPT ![c].hung = TRUE]
                  [] OTHER           -> after
          /\ lcCall' = LcCall(c, "initialize", r.ret, k.phase, components' # components)
    /\ lcLast' = NoShutdown

\* shutdownComponents(); initializeComponents(); the running flag is not touched
CoreKernel_reset(k) ==
    [k EXCEPT !.owned = (@ \ {"resourceManager", "performanceMonitor"})
                           \cup {"performanceMonitor", "resourceManager"}]

\* ArchitecturalKernel, ComputationalKernel, CryptoMicroKernel, OrchestrationKernel:
\* the local cache is cleared and nothing else
AdvancedKernel_reset(k) == [k EXCEPT !.cached = FALSE]

\* OrchestrationKernel::reset also empties the pending tasks
OrchestrationKernel_reset(k) == [AdvancedKernel_reset(k) EXCEPT !.taskDescriptors = <<>>]

\* ComputationalKernel::reset: dynamicCache->clear()
ComputationalKernel_reset(k) == [AdvancedKernel_reset(k) EXCEPT !.results = <<>>]

reset(c) ==
    /\ UNCHANGED exceptLifecycle
    /\ c \in DOMAIN components \ {"SmartKernel", "CacheManager", "RecoveryManager"}
    /\ ~components[c].hung
    /\ LET after == CASE c = "ParentKernel" -> ParentKernel_shutdown(components)
                      [] c = "CoreKernel"   -> [components EXCEPT ![c] = CoreKernel_reset(@)]
                      [] c = "MicroKernel"  -> [components EXCEPT ![c] = MicroKernel_shutdown(@)]
                      [] c = "OrchestrationKernel" ->
                                        [components EXCEPT ![c] = OrchestrationKernel_reset(@)]
                      [] c = "ComputationalKernel" ->
                                        [components EXCEPT ![c] = ComputationalKernel_reset(@)]
                      [] OTHER              -> [components EXCEPT ![c] = AdvancedKernel_reset(@)]
       IN components' = [after EXCEPT ![c] = Settled(@, "Reset")]
    /\ lcCall' = LcCall(c, "reset", "void", components[c].phase, components' # components)
    /\ lcLast' = NoShutdown

isRunning(c, k) ==
    IF c = "OrchestrationKernel" THEN "threadPool" \in k.owned /\ k.queued ELSE k.flag

\* OrchestrationKernel::accelerateTunnels: a task is enqueued when the pool exists
accelerateTunnels ==
    /\ UNCHANGED exceptLifecycle
    /\ "OrchestrationKernel" \in DOMAIN components
    /\ ~components["OrchestrationKernel"].hung
    /\ components' = [components EXCEPT !["OrchestrationKernel"].queued =
                          @ \/ "threadPool" \in components["OrchestrationKernel"].owned]
    /\ lcCall' = LcCall("OrchestrationKernel", "accelerateTunnels", "void",
                        components["OrchestrationKernel"].phase, components' # components)
    /\ lcLast' = NoShutdown

\* a worker of the pool takes the queued task
workerTakesTask(c) ==
    /\ UNCHANGED exceptLifecycle
    /\ c \in DOMAIN components
    /\ components[c].queued
    /\ components[c].pool = "running"
    /\ components' = [components EXCEPT ![c].queued = FALSE]
    /\ lcCall' = NoLcCall
    /\ lcLast' = NoShutdown

\* MicroKernel::executeTask: dynamicCache->put, recoveryManager->createRecoveryPoint,
\* return true; neither the running flag nor the pointers are tested
MicroKernel_executeTask(k) ==
    IF {"dynamicCache", "recoveryManager"} \subseteq k.owned
    THEN Result([k EXCEPT !.cached = TRUE, !.points = TRUE], "true")
    ELSE Result(k, "crash")

executeTask(proceeds) ==
    /\ UNCHANGED exceptLifecycle
    /\ "MicroKernel" \in DOMAIN components
    /\ ~components["MicroKernel"].hung
    /\ LET k == components["MicroKernel"]
           r == MicroKernel_executeTask(k)
       IN /\ components' =
                [components EXCEPT !["MicroKernel"] =
                    CASE r.ret # "crash" -> r.k
                      [] proceeds -> [k EXCEPT !.points = "recoveryManager" \in k.owned]
                      [] OTHER    -> [k EXCEPT !.hung = TRUE]]
          /\ lcCall' = LcCall("MicroKernel", "executeTask",
                              IF r.ret = "crash" /\ proceeds THEN "true" ELSE r.ret,
                              k.phase, components' # components)
    /\ lcLast' = NoShutdown

NumInputs == 2
MaxMs == 2

\* resultKey = "compute_" + to_string(steady clock in ms); ms is the clock's reading.
\* results: key -> the input whose result dynamicCache holds under the key
ComputationalKernel_compute(k, data, ms) ==
    IF "dynamicCache" \notin k.owned THEN Result(k, "crash")
    ELSE LET resultKey == ms IN
         IF resultKey \in DOMAIN k.results
         THEN Result([k EXCEPT !.clockMs = ms], "true")
         ELSE Result([k EXCEPT !.clockMs = ms,
                               !.results = With(@, resultKey, data),
                               !.cached = TRUE,
                               !.points = @ \/ "recoveryManager" \in k.owned], "true")

\* elapsed: the milliseconds the steady clock has advanced since the last call
compute(data, elapsed, proceeds) ==
    /\ UNCHANGED exceptLifecycle
    /\ "ComputationalKernel" \in DOMAIN components
    /\ ~components["ComputationalKernel"].hung
    /\ components["ComputationalKernel"].clockMs + elapsed <= MaxMs
    /\ LET k == components["ComputationalKernel"]
           ms == k.clockMs + elapsed
           r == ComputationalKernel_compute(k, data, ms)
       IN /\ components' =
                [components EXCEPT !["ComputationalKernel"] =
                    CASE r.ret # "crash" -> r.k
                      [] proceeds -> k
                      [] OTHER    -> [k EXCEPT !.hung = TRUE]]
          /\ lcCall' = LcCall("ComputationalKernel", "compute",
                              IF r.ret = "crash" /\ proceeds THEN "true" ELSE r.ret,
                              k.phase, components' # components)
                          @@ [data |-> data, key |-> ms, hit |-> ms \in DOMAIN k.results,
                              stored |-> Range(k.results)]
    /\ lcLast' = NoShutdown

CacheManager_putData(k) ==
    IF ~k.flag \/ "dynamicCache" \notin k.owned THEN Result(k, "false")
    ELSE Result([k EXCEPT !.cached = TRUE], "true")

putData ==
    /\ UNCHANGED exceptLifecycle
    /\ "CacheManager" \in DOMAIN components
    /\ LET r == CacheManager_putData(components["CacheManager"])
       IN /\ components' = [components EXCEPT !["CacheManager"] = r.k]
          /\ lcCall' = LcCall("CacheManager", "putData", r.ret,
                              components["CacheManager"].phase, components' # components)
    /\ lcLast' = NoShutdown

\* RecoveryManager::createRecoveryPoint reads neither initialized nor the pool;
\* it returns the identifier of the point it stored
createRecoveryPoint ==
    /\ UNCHANGED exceptLifecycle
    /\ "RecoveryManager" \in DOMAIN components
    /\ components' = [components EXCEPT !["RecoveryManager"].points = TRUE]
    /\ lcCall' = LcCall("RecoveryManager", "createRecoveryPoint", "id",
                        components["RecoveryManager"].phase, components' # components)
    /\ lcLast' = NoShutdown

\* updateExtendedMetrics takes a unique_lock on the kernel mutex. held: the calling
\* thread already owns that mutex, which std::shared_mutex leaves undefined; the builds
\* either throw std::system_error (throws) or block the thread for ever
updateExtendedMetrics(k, held, throws) ==
    CASE ~held  -> Result([k EXCEPT !.metrics = TRUE], "void")
      [] throws -> Result(k, "throws")
      [] OTHER  -> Result([k EXCEPT !.hung = TRUE], "blocked")

\* the body both kernels share, run with the kernel mutex held by processTask
processTaskLocked(k, throws) ==
    LET stored == [k EXCEPT !.cached = @ \/ "dynamicCache" \in k.owned]
        u == updateExtendedMetrics(stored, TRUE, throws)
    IN CASE u.ret = "void"   -> Result(u.k, "true")
         [] u.ret = "throws" -> Result(u.k, "false")
         [] OTHER            -> Result(u.k, "blocked")

CoreKernel_processTask(k, throws) ==
    IF ~k.flag THEN Result(k, "false") ELSE processTaskLocked(k, throws)

MicroKernel_processTask(k, throws) == processTaskLocked(k, throws)

processTask(c, throws) ==
    /\ UNCHANGED exceptLifecycle
    /\ c \in DOMAIN components \cap {"CoreKernel", "MicroKernel"}
    /\ ~components[c].hung
    /\ LET r == IF c = "CoreKernel" THEN CoreKernel_processTask(components[c], throws)
                ELSE MicroKernel_processTask(components[c], throws)
       IN /\ components' = [components EXCEPT ![c] = r.k]
          /\ lcCall' = LcCall(c, "processTask", r.ret, components[c].phase,
                              components' # components)
    /\ lcLast' = NoShutdown

\* MicroKernel::updateMetrics calls updateExtendedMetrics without holding the mutex
updateMetrics ==
    /\ UNCHANGED exceptLifecycle
    /\ "MicroKernel" \in DOMAIN components
    /\ ~components["MicroKernel"].hung
    /\ components' = [components EXCEPT !["MicroKernel"] =
                          updateExtendedMetrics(@, FALSE, FALSE).k]
    /\ lcCall' = LcCall("MicroKernel", "updateMetrics", "void",
                        components["MicroKernel"].phase, components' # components)
    /\ lcLast' = NoShutdown

\* CacheManager::updateMetrics takes a unique_lock on cacheMutex first; held: the
\* calling thread owns cacheMutex already
CacheManager_updateMetrics(k, held, throws) ==
    CASE held /\ throws -> Result(k, "throws")
      [] held -> Result([k EXCEPT !.hung = TRUE], "blocked")
      [] ~k.flag \/ "dynamicCache" \notin k.owned -> Result(k, "void")
      [] OTHER -> Result([k EXCEPT !.metrics = TRUE], "void")

\* cleanupCache holds cacheMutex for its whole body and calls updateMetrics in it;
\* a std::system_error from the second lock is caught by its catch clause
CacheManager_cleanupCache(k, throws) ==
    IF ~k.flag \/ "dynamicCache" \notin k.owned THEN Result(k, "void")
    ELSE LET cleared == [k EXCEPT !.cached = FALSE]
             u == CacheManager_updateMetrics(cleared, TRUE, throws)
         IN IF u.ret = "throws" THEN Result(u.k, "void") ELSE u

\* ready: the manager was initialized; updated: updateMetrics ran to its end
cleanupCache(throws) ==
    /\ UNCHANGED exceptLifecycle
    /\ "CacheManager" \in DOMAIN components
    /\ ~components["CacheManager"].hung
    /\ LET k == components["CacheManager"]
           r == CacheManager_cleanupCache(k, throws)
       IN /\ components' = [components EXCEPT !["CacheManager"] = r.k]
          /\ lcCall' = LcCall("CacheManager", "cleanupCache", r.ret, k.phase,
                              components' # components)
                          @@ [ready |-> k.flag /\ "dynamicCache" \in k.owned,
                              updated |-> r.k.metrics /\ r.ret = "void"
                                            /\ CacheManager_updateMetrics(k, TRUE, throws).ret = "void"]
    /\ lcLast' = NoShutdown

\* RecoveryManager::restoreFromPoint up to its first statement: the flag is set; no
\* lock is taken, so calls of several threads overlap
restoreFromPointBegin(t) ==
    /\ UNCHANGED exceptLifecycle
    /\ "RecoveryManager" \in DOMAIN components
    /\ t \notin components["RecoveryManager"].restoring
    /\ components' = [components EXCEPT !["RecoveryManager"].recoveryInProgress = TRUE,
                                        !["RecoveryManager"].restoring = @ \cup {t}]
    /\ lcCall' = NoLcCall
    /\ lcLast' = NoShutdown

\* the rest of restoreFromPoint: the point is loaded and handed to the restore
\* callback, which returns cbResult; the flag is cleared on both ways out
restoreFromPointEnd(t, cbResult) ==
    /\ UNCHANGED exceptLifecycle
    /\ "RecoveryManager" \in DOMAIN components
    /\ t \in components["RecoveryManager"].restoring
    /\ components' = [components EXCEPT !["RecoveryManager"].recoveryInProgress = FALSE,
                                        !["RecoveryManager"].restoring = @ \ {t}]
    /\ lcCall' = LcCall("RecoveryManager", "restoreFromPoint",
                        IF components["RecoveryManager"].points /\ cbResult
                        THEN "true" ELSE "false",
                        components["RecoveryManager"].phase, FALSE)
    /\ lcLast' = NoShutdown

isRecoveryInProgress(k) == k.recoveryInProgress

\* OrchestrationKernel::enqueueTask: the descriptor is pushed, then the data is put in
\* the cache through a pointer that is null after shutdown
enqueueTask(proceeds) ==
    /\ UNCHANGED exceptLifecycle
    /\ "OrchestrationKernel" \in DOMAIN components
    /\ LET k == components["OrchestrationKernel"]
           pushed == [k EXCEPT !.taskDescriptors = Append(@, k.enqueued + 1),
                               !.enqueued = @ + 1]
       IN /\ ~k.hung
          /\ k.enqueued < MaxEnqueued
          /\ components' = [components EXCEPT !["OrchestrationKernel"] =
                                CASE "dynamicCache" \in k.owned -> [pushed EXCEPT !.cached = TRUE]
                                  [] proceeds                   -> pushed
                                  [] OTHER                      -> [pushed EXCEPT !.hung = TRUE]]
          /\ lcCall' = LcCall("OrchestrationKernel", "enqueueTask", "void", k.phase, TRUE)
    /\ lcLast' = NoShutdown

\* LoadBalancer::balance as the OrchestrationKernel uses it: nothing when there are no
\* kernels or no tasks, else one scheduleTask per task
dispatchAll(k, kernels) ==
    IF kernels = 0 \/ k.taskDescriptors = <<>> THEN k
    ELSE [k EXCEPT !.dispatched = @ \o k.taskDescriptors]

\* OrchestrationKernel::orchestrate: balance over the given kernels, a recovery point
orchestrate(kernels) ==
    /\ UNCHANGED exceptLifecycle
    /\ "OrchestrationKernel" \in DOMAIN components
    /\ LET k == components["OrchestrationKernel"] IN
       /\ ~k.hung
       /\ Len(k.dispatched) + Len(k.taskDescriptors) <= MaxDispatched
       /\ components' = [components EXCEPT !["OrchestrationKernel"] =
                             [dispatchAll(k, kernels) EXCEPT
                                 !.points = @ \/ "recoveryManager" \in k.owned]]
       /\ lcCall' = LcCall("OrchestrationKernel", "orchestrate", "void", k.phase,
                           components' # components)
    /\ lcLast' = NoShutdown

\* OrchestrationKernel::balanceTasks: balance over three kernels of its own, then the
\* pending tasks are cleared
balanceTasks ==
    /\ UNCHANGED exceptLifecycle
    /\ "OrchestrationKernel" \in DOMAIN components
    /\ LET k == components["OrchestrationKernel"] IN
       /\ ~k.hung
       /\ Len(k.dispatched) + Len(k.taskDescriptors) <= MaxDispatched
       /\ components' = [components EXCEPT !["OrchestrationKernel"] =
                             [dispatchAll(k, 3) EXCEPT !.taskDescriptors = <<>>]]
       /\ lcCall' = LcCall("OrchestrationKernel", "balanceTasks", "void", k.phase,
                           components' # components)
    /\ lcLast' = NoShutdown

addChild(child) ==
    /\ UNCHANGED exceptLifecycle
    /\ "ParentKernel" \in DOMAIN components
    /\ Len(components["ParentKernel"].children) < MaxChildren
    /\ components' = [components EXCEPT !["ParentKernel"].children = Append(@, child)]
    /\ lcLast' = NoShutdown
    /\ lcCall' = NoLcCall

\* the components of one run: one component alone, or a ParentKernel with the two
\* kernels that can be added to it as children
Configurations ==
    {{c} : c \in {"CoreKernel", "MicroKernel", "ArchitecturalKernel", "ComputationalKernel",
                  "CryptoMicroKernel", "OrchestrationKernel", "SmartKernel", "CacheManager",
                  "RecoveryManager"}}
        \cup {{"ParentKernel", "CoreKernel", "MicroKernel"}}

InitLifecycle ==
    /\ \E cfg \in Configurations, flag \in BOOLEAN :
          components = [c \in cfg |-> Constructed(c, flag)]
    /\ lcLast = NoShutdown
    /\ lcCall = NoLcCall

LifecycleUnused ==
    /\ components = <<>>
    /\ lcLast = NoShutdown
    /\ lcCall = NoLcCall

(***************************************************************************)
(* Specifications.                                                         *)
(***************************************************************************)
NextCache ==
    \/ ClientOp
    \/ Tick
    \/ MaintenancePass

InitCache == InitCacheWith({"6194c3d"}) /\ RecoveryUnused /\ InitBalancer /\ LifecycleUnused /\ PoolUnused /\ CallersUnused /\ InstancesUnused

Spec == InitCache /\ [][NextCache]_vars

\* the maintenance thread step by step, against a calling thread
NextCleanup ==
    \/ \E k \in Keys, v \in Values, ttl \in Ttls : Put(k, v, ttl)
    \/ \E k \in Keys : Get(k)
    \/ GetRemove
    \/ \E k \in Keys : Remove(k)
    \/ Tick
    \/ CleanupCheck
    \/ CleanupLock
    \/ CleanupPass
    \/ AdaptiveSleepEnter
    \/ AdaptiveSleepWait
    \/ AdaptiveSleepWake
    \/ AdaptiveSleepReturn
    \/ StopCleanupThread
    \/ JoinCleanupThread

InitCleanup == InitCacheWith({"HEAD", "6194c3d"}) /\ RecoveryUnused /\ InitBalancer /\ LifecycleUnused /\ PoolUnused /\ CallersUnused /\ InstancesUnused

SpecCleanup == InitCleanup /\ [][NextCleanup]_vars

\* the cache with an eviction callback that the caller installs and replaces
Callbacks == {"none", "returns", "throws"}

NextCallback ==
    \/ \E cb \in Callbacks : setEvictionCallback(cb)
    \/ \E k \in Keys, v \in Values, ttl \in Ttls : Put(k, v, ttl)
    \/ \E k \in Keys : Get(k)
    \/ GetRemove
    \/ \E k \in Keys : Remove(k)
    \/ Clear
    \/ \E n \in 0..MaxCapacity : Resize(n)
    \/ \E k \in Keys, v \in Values, ttl \in Ttls : BatchPut(<<k>>, v, ttl)
    \/ \E k \in Keys, v \in Values, ttl \in Ttls : SyncWith(<<k>>, <<k>>, v, 0, ttl)
    \/ Tick
    \/ MaintenancePass

SpecCallback == InitCache /\ [][NextCallback]_vars

\* two threads that call get, put and syncWith on caches "a" and "b"
ThreadKeys == 1..2

NextCallers ==
    \/ \E t \in Threads, k \in ThreadKeys : getLock(t, k)
    \/ \E t \in Threads : getFind(t)
    \/ \E t \in Threads, torn \in BOOLEAN : getUpdate(t, torn)
    \/ \E t \in Threads : getRemove(t)
    \/ \E t \in Threads, k \in ThreadKeys, v \in Values, ttl \in Ttls : putBy(t, k, v, ttl)
    \/ \E t \in Threads, x \in Caches : syncWithLock(t, x)
    \/ \E t \in Threads, k \in ThreadKeys, v \in Values, ttl \in Ttls :
          syncWithCopy(t, <<k>>, <<k>>, v, now, ttl)
    \/ Tick

CallersStart ==
    InitCacheWith({"6194c3d"}) /\ InitCallers /\ RecoveryUnused /\ InitBalancer
        /\ LifecycleUnused /\ PoolUnused /\ InstancesUnused

SpecCallers == CallersStart /\ [][NextCallers]_vars

NextRecovery ==
    \/ \E id \in Ids, captured \in States, saved \in BOOLEAN :
          CreateRecoveryPoint(id, captured, saved)
    \/ \E id \in Ids, cbResult \in BOOLEAN : RestoreFromPoint(id, cbResult)
    \/ \E id \in Ids : DeleteRecoveryPoint(id)
    \/ \E id \in Ids, byte \in Bytes : CorruptCheckpoint(id, byte)

\* the index of a manager that keeps at most maxRecoveryPoints of NumIndexIds points
NextRecoveryIndex ==
    \/ \E id \in IndexIds, saved \in BOOLEAN : CreateRecoveryPoint(id, <<1>>, saved)
    \/ \E id \in IndexIds : DeleteRecoveryPoint(id)
    \/ \E max \in 1..MaxPoints :
          setConfiguration([rmConfig EXCEPT !.maxRecoveryPoints = max])

RecoveryIndexStart ==
    /\ rmConfig \in [compression : {FALSE}, validation : {TRUE}, maxRecoveryPoints : 1..MaxPoints]
    /\ rmFiles = EmptyMap
    /\ rmPoints = EmptyMap
    /\ rmCaptured = EmptyMap
    /\ rmTampered = {}
    /\ rmLast = NoCall
    /\ CacheUnused /\ InitBalancer /\ LifecycleUnused /\ PoolUnused /\ CallersUnused /\ InstancesUnused

SpecRecoveryIndex == RecoveryIndexStart /\ [][NextRecoveryIndex]_vars

RecoveryStart == InitRecovery /\ CacheUnused /\ InitBalancer /\ LifecycleUnused /\ PoolUnused /\ CallersUnused /\ InstancesUnused

SpecRecovery == RecoveryStart /\ [][NextRecovery]_vars

\* arguments of setResourceWeights, in thousandths: a tuple summing to 1, one summing
\* to MaxWeightSum / 1000
WeightInputs == {<<500, 500, 0, 0>>,
                 <<MaxWeightSum \div 4, MaxWeightSum \div 4, MaxWeightSum \div 4, MaxWeightSum \div 4>>}

NextBalancer ==
    \/ \E metrics \in SeqsUpTo(MetricsProfiles, MaxKernels), tasks \in SeqsUpTo(TaskKinds, MaxTasks) :
          \E numKernels \in {Len(metrics), MaxKernels} : balance(numKernels, tasks, metrics)
    \/ \E s \in Strategies : setStrategy(s)
    \/ \E w \in WeightInputs : setResourceWeights(w[1], w[2], w[3], w[4])

BalancerStart == InitBalancer /\ CacheUnused /\ RecoveryUnused /\ LifecycleUnused /\ PoolUnused /\ CallersUnused /\ InstancesUnused

SpecBalancer == BalancerStart /\ [][NextBalancer]_vars

NextLifecycle ==
    \/ \E c \in DOMAIN components : shutdown(c)
    \/ \E c \in DOMAIN components, ok, proceeds \in BOOLEAN : initialize(c, ok, proceeds)
    \/ \E c \in DOMAIN components : reset(c)
    \/ accelerateTunnels
    \/ \E proceeds \in BOOLEAN : enqueueTask(proceeds)
    \/ \E kernels \in 0..MaxKernels : orchestrate(kernels)
    \/ balanceTasks
    \/ \E t \in Callers : restoreFromPointBegin(t)
    \/ \E t \in Callers, cbResult \in BOOLEAN : restoreFromPointEnd(t, cbResult)
    \/ \E c \in DOMAIN components, throws \in BOOLEAN : processTask(c, throws)
    \/ updateMetrics
    \/ \E proceeds \in BOOLEAN : executeTask(proceeds)
    \/ putData
    \/ \E throws \in BOOLEAN : cleanupCache(throws)
    \/ \E data \in 1..NumInputs, elapsed \in 0..1, proceeds \in BOOLEAN :
          compute(data, elapsed, proceeds)
    \/ createRecoveryPoint
    \/ \E c \in DOMAIN components : workerTakesTask(c)
    \/ \E child \in {"CoreKernel", "MicroKernel"} : addChild(child)

LifecycleStart == InitLifecycle /\ CacheUnused /\ RecoveryUnused /\ InitBalancer /\ PoolUnused /\ CallersUnused /\ InstancesUnused

PoolStart ==
    InitPool /\ CacheUnused /\ RecoveryUnused /\ InitBalancer /\ LifecycleUnused /\ CallersUnused /\ InstancesUnused

SpecPool == PoolStart /\ [][NextPool]_vars

InstancesStart ==
    InitInstances /\ CacheUnused /\ RecoveryUnused /\ InitBalancer /\ LifecycleUnused
        /\ PoolUnused /\ CallersUnused

SpecInstances == InstancesStart /\ [][NextInstances]_vars

SpecLifecycle == LifecycleStart /\ [][NextLifecycle]_vars

(***************************************************************************)
(* DynamicCache: properties.                                               *)
(***************************************************************************)
Size == Cardinality(DOMAIN cache_)

\* C1: once an operation has returned, the number of stored entries does not
\* exceed the current capacity, for any capacity including 0.
C1_SizeWithinCapacity == clientPc = "idle" => Size <= allocatedSize_

\* C5: a put that inserts a new key into a cache whose size equals its
\* capacity evicts exactly one entry, the key whose most recent put or get is
\* the oldest among the keys present before the insert.
C5_PutEvictsLeastRecentlyUsed ==
    (lastOp.op = "put" /\ lastOp.pre # None) => lastOp.ev = <<lastOp.pre>>

\* C6: the LRU list and the map hold the same keys, each map key has exactly
\* one list node, and the list is as long as the map is large.
C6_MapListConsistent ==
    /\ Range(lruList_) = DOMAIN cache_
    /\ Len(lruList_) = Size
    /\ \A k \in DOMAIN cache_ : Cardinality({i \in DOMAIN lruList_ : lruList_[i] = k}) = 1

C6_Witness ==
    /\ lastOp.op = "put"
    /\ lastOp.ev # <<>>
    /\ Size = MaxCapacity
    /\ Len(lruList_) = MaxCapacity

\* C7: a get of an entry stored with ttl > 0, issued at t >= last_access + ttl,
\* returns None, and the cache does not contain the key once it has returned.
C7_ExpiredGetReturnsNone ==
    (clientPc = "idle" /\ lastOp.op = "get" /\ lastOp.due)
        => (lastOp.ret = None /\ lastOp.key \notin DOMAIN cache_)

C7_Witness ==
    /\ clientPc = "idle"
    /\ lastOp.op = "get"
    /\ lastOp.due
    /\ lastOp.ev = <<lastOp.key>>
    /\ lastOp.key \notin DOMAIN cache_

\* a step of syncWith: every entry the cache held leaves it, also one whose key
\* comes back with the other cache's entry
SyncStep == \E k \in Keys, v \in Values, ttl \in Ttls : SyncWith(<<k>>, <<k>>, v, 0, ttl)

\* the keys of the entries that leave the cache in a step
Leaving == IF SyncStep THEN DOMAIN cache_ ELSE DOMAIN cache_ \ DOMAIN cache_'

\* C27: with an eviction callback installed, an operation calls the callback
\* exactly once for each entry that leaves the cache in it (remove, clear, LRU
\* eviction on insert, expiry of the time to live, resize to a smaller
\* capacity), and for no other key.
C27_CallbackOncePerRemoval ==
    [][(evictionCallback_ = "returns" /\ (cache_' # cache_ \/ invoked' # invoked))
          => \A k \in Keys : invoked'[k] = (IF k \in Leaving THEN 1 ELSE 0)]_vars

C27_Witness ==
    /\ evictionCallback_ = "returns"
    /\ lastOp.op = "put"
    /\ lastOp.pre \in Keys
    /\ invoked = Calls(<<lastOp.pre>>)
    /\ lastOp.pre \notin DOMAIN cache_
    /\ Size = MaxCapacity

\* C28: when the eviction callback throws while remove, the eviction of a put
\* or resize is removing an entry, the entry is removed all the same.
C28_ThrowingCallbackStillRemoves ==
    [][(evictionCallback_ = "throws" /\ invoked' # invoked)
          => \A k \in Keys : invoked'[k] > 0 => k \notin DOMAIN cache_']_vars

\* C29: after syncWith the cache holds exactly the entries of the other cache
\* that were present and not expired at the time of the call, each with the
\* other cache's value, and nothing else.
C29_SyncCopiesLiveEntries ==
    [][\A otherLru \in SmallSeqs(MaxOther), v \in Values, ttl \in Ttls :
          \A iter \in Perms(Range(otherLru)) :
             SyncWith(otherLru, iter, v, 0, ttl)
                => /\ DOMAIN cache_' = {k \in Range(otherLru) : ~IsExpired(Entry(v, 0, ttl), now)}
                   /\ \A k \in DOMAIN cache_' : cache_'[k].data = v]_vars

\* C33: a maintenance pass with auto-resize enabled halves the capacity, not
\* below the minimum, when the size is under 25% of the capacity and the
\* capacity is above the minimum; it doubles the capacity, not above the
\* maximum, when the size is over 80% of the capacity and the capacity is below
\* the maximum; otherwise it leaves the capacity as it is.
C33_AutoResizeRule ==
    [][(MaintenancePass /\ autoResizeEnabled_ /\ cleanupPc' # "terminated") =>
          LET size == Cardinality(DOMAIN cache_')
              cap == allocatedSize_
              shrink == 100 * size < 25 * cap /\ cap > minSize_
              grow == ~shrink /\ 100 * size > 80 * cap /\ cap < maxSize_
          IN /\ shrink => /\ allocatedSize_' >= minSize_
                          /\ allocatedSize_' = cap \div 2 \/ allocatedSize_' = minSize_
                          /\ allocatedSize_' >= cap \div 2
             /\ grow => /\ allocatedSize_' <= maxSize_
                        /\ allocatedSize_' = cap * 2 \/ allocatedSize_' = maxSize_
                        /\ allocatedSize_' <= cap * 2
             /\ (~shrink /\ ~grow) => allocatedSize_' = cap]_vars

\* the capacity stands at the maximum, which only a doubling that was cut off
\* at the maximum reaches
C33_Witness ==
    /\ autoResizeEnabled_
    /\ allocatedSize_ = AutoMax
    /\ Size = MaxCapacity

\* C34: concurrent gets of present, unexpired keys leave the list and the map
\* consistent: while a get reorders the list and sets last_access, no other
\* thread holds the cache's lock in any mode, and when all calls have returned
\* the list holds each key of the map exactly once.
C34_GetUpdatesInExclusion ==
    /\ \A t \in Threads : thPc[t] = "get_update" => (shared["a"] \subseteq {t} /\ excl["a"] = None)
    /\ (\A t \in Threads : thPc[t] = "idle") =>
          /\ Range(lruList_) = DOMAIN cache_
          /\ Len(lruList_) = Cardinality(DOMAIN cache_)

\* C37: the remove that a get issues for an expired entry of key k does not take
\* away a fresh entry that another thread has put for k in the meantime.
C37_GetKeepsFreshPut ==
    [][\A t \in Threads :
          (getRemove(t) /\ thArg[t] \in DOMAIN cache_ /\ ~IsExpired(cache_[thArg[t]], now))
              => (thArg[t] \in DOMAIN cache_' /\ cache_'[thArg[t]] = cache_[thArg[t]])]_vars

\* C38: a.syncWith(b) and b.syncWith(a) running at the same time both complete:
\* no two threads each own one cache's mutex and wait for the other's.
C38_CrossedSyncCompletes ==
    \A t, u \in Threads :
        ~(/\ t # u
          /\ thPc[t] = "sync_other" /\ thPc[u] = "sync_other"
          /\ excl[Other(thArg[t])] = u
          /\ excl[Other(thArg[u])] = t)

\* C8: while the maintenance thread sleeps or waits between passes it does not
\* hold the cache's data lock, and an operation of the calling thread can run.
C8_SleepsWithoutDataLock ==
    cleanupPc = "sleeping" =>
        /\ mutexHolder # "cleanup"
        /\ clientPc = "idle" => ENABLED (\E k \in Keys : Get(k))

C8_Witness ==
    /\ cleanupPc = "sleeping"
    /\ build = "HEAD"
    /\ lastOp.op = "put"
    /\ Size > 0

(***************************************************************************)
(* RecoveryManager: properties.                                            *)
(***************************************************************************)
\* C2: restore_from_point on the id returned by create_recovery_point passes
\* exactly the captured byte sequence to the restore callback, with compression
\* enabled or disabled.
C2_RestoreDeliversCapturedState ==
    (rmLast.op = "restore" /\ rmLast.id \in DOMAIN rmCaptured /\ rmLast.id \notin rmTampered)
        => (rmLast.called /\ rmLast.delivered = rmCaptured[rmLast.id])

\* C9: with state validation enabled, restore_from_point on a point whose state
\* does not hash to its stored checksum returns false and does not invoke the
\* restore callback.
C9_ChecksumMismatchRejected ==
    (rmLast.op = "restore" /\ rmConfig.validation /\ rmLast.mismatch)
        => (~rmLast.ret /\ ~rmLast.called)

\* C21: after any create_recovery_point returns, the in-memory index holds at most
\* max_points points, the oldest by timestamp having been evicted first
C21_IndexBoundedByMaxPoints ==
    rmLast.op = "create" => Cardinality(DOMAIN rmPoints) <= rmConfig.maxRecoveryPoints

C3_StablePriorityPartition ==
    lbLast.called =>
        LET calls == lbLast.calls IN
        /\ Len(calls) = Len(lbLast.tasks)
        /\ {calls[i].task : i \in DOMAIN calls} = DOMAIN lbLast.tasks
        /\ \A i, j \in DOMAIN calls :
              i < j =>
                 LET pi == lbLast.tasks[calls[i].task].priority
                     pj == lbLast.tasks[calls[j].task].priority
                 IN /\ ~(pi < 7 /\ pj >= 7)
                    /\ ((pi >= 7) = (pj >= 7)) => calls[i].task < calls[j].task

C3_Witness ==
    /\ lbLast.called
    /\ Len(lbLast.tasks) = 3
    /\ lbLast.tasks[1].priority < 7
    /\ lbLast.tasks[2].priority >= 7
    /\ lbLast.tasks[3].priority >= 7
    /\ [i \in DOMAIN lbLast.calls |-> lbLast.calls[i].task] = <<2, 3, 1>>

\* C10: a balance call at saturation (mean cpu or memory usage above 0.9) with
\* HybridAdaptive, LeastLoaded, RoundRobin or PriorityAdaptive configured still
\* dispatches with the configured strategy.
C10_SaturationKeepsConfiguredStrategy ==
    (lbLast.called /\ lbLast.saturated
        /\ lbLast.configured \in {"HybridAdaptive", "LeastLoaded", "RoundRobin", "PriorityAdaptive"})
        => (lbLast.used = lbLast.configured /\ strategyEnum = lbLast.configured)

\* C11: the saturation toggle between ResourceAware and WorkloadSpecific lasts for
\* the triggering balance call only: when the call has returned, the strategy is
\* the one that was configured before it.
C11_ToggleOnlyForTheCall ==
    (lbLast.called /\ lbLast.saturated
        /\ lbLast.configured \in {"ResourceAware", "WorkloadSpecific"})
        => strategyEnum = lbLast.configured

\* C12 as stated: whenever the scores the strategy selects by are all within 0.001
\* of each other, successive selections go through the kernels in cyclic index
\* order, so n successive selections over n kernels take each kernel once.
C12_TieBreakRoundRobin ==
    lbLast.called =>
        \A i \in 1..(Len(lbLast.calls) - 1) :
            (lbLast.calls[i].tie /\ lbLast.calls[i + 1].tie)
                => lbLast.calls[i + 1].kernel
                      = (lbLast.calls[i].kernel + 1) % lbLast.calls[i].kernels

\* C12, for the strategies that have the tie-break (every strategy but
\* WorkloadSpecific, which takes the first kernel of least score): when all
\* resource scores (and, under HybridAdaptive, all workload scores) are within
\* 0.001, successive selections go through the kernels in cyclic index order.
C12_TieBreakRoundRobinWhereDefined ==
    (lbLast.called /\ lbLast.used # "WorkloadSpecific") =>
        \A i \in 1..(Len(lbLast.calls) - 1) :
            (lbLast.calls[i].tie /\ lbLast.calls[i + 1].tie)
                => lbLast.calls[i + 1].kernel
                      = (lbLast.calls[i].kernel + 1) % lbLast.calls[i].kernels

C12_Witness ==
    /\ lbLast.called
    /\ lbLast.used = "HybridAdaptive"
    /\ Len(lbLast.calls) = 3
    /\ \A i \in 1..3 : lbLast.calls[i].tie /\ lbLast.calls[i].kernels = 2
    /\ [i \in 1..3 |-> lbLast.calls[i].kernel] = <<0, 1, 0>>

\* C30: with RoundRobin configured, and the kernels not saturated so that the
\* call dispatches with it, successive tasks of a balance call go to successive
\* kernels in cyclic index order, whatever the kernels' metrics are.
C30_RoundRobinCycles ==
    (lbLast.called /\ lbLast.configured = "RoundRobin" /\ ~lbLast.saturated) =>
        \A i \in 1..(Len(lbLast.calls) - 1) :
            lbLast.calls[i + 1].kernel = (lbLast.calls[i].kernel + 1) % lbLast.calls[i].kernels

\* C31: with LeastLoaded configured, and the kernels not saturated so that the
\* call dispatches with it, every task is scheduled on a kernel whose cpu usage
\* is the least among the metrics supplied.
C31_LeastLoadedTakesMinCpu ==
    (lbLast.called /\ lbLast.configured = "LeastLoaded" /\ ~lbLast.saturated) =>
        \A i \in DOMAIN lbLast.calls :
            \A j \in DOMAIN lbLast.metrics :
                lbLast.metrics[lbLast.calls[i].kernel + 1].cpuUsage <= lbLast.metrics[j].cpuUsage

\* C36: under ResourceAware selection with scores that do not tie, of two kernels
\* whose metrics differ in cpu usage only, the one of lower cpu usage is selected.
C36_ResourceAwarePrefersIdleCpu ==
    (lbLast.called /\ lbLast.used = "ResourceAware" /\ Len(lbLast.metrics) = 2
        /\ lbLast.metrics[1].cpuUsage # lbLast.metrics[2].cpuUsage
        /\ [lbLast.metrics[1] EXCEPT !.cpuUsage = 0] = [lbLast.metrics[2] EXCEPT !.cpuUsage = 0]) =>
        \A i \in DOMAIN lbLast.calls :
            ~lbLast.calls[i].tie =>
                \A j \in DOMAIN lbLast.metrics :
                    lbLast.metrics[lbLast.calls[i].kernel + 1].cpuUsage <= lbLast.metrics[j].cpuUsage

\* C40: in a balance call that gets past its guard every input task is handed
\* to scheduleTask exactly once, on a kernel index within the kernels supplied,
\* whatever the strategy, the metrics and the cursor that earlier calls left.
C40_EveryTaskOnceOnValidKernel ==
    lbLast.called =>
        /\ Len(lbLast.calls) = Len(lbLast.tasks)
        /\ \A t \in DOMAIN lbLast.tasks :
              Cardinality({i \in DOMAIN lbLast.calls : lbLast.calls[i].task = t}) = 1
        /\ \A i \in DOMAIN lbLast.calls :
              lbLast.calls[i].kernel \in 0..(Len(lbLast.metrics) - 1)

\* a call over one kernel that found the cursor on the second kernel of an
\* earlier call, and dispatched every task to kernel 0
C40_Witness ==
    /\ lbLast.called
    /\ Len(lbLast.metrics) = 1
    /\ lbLast.cursor = 1
    /\ Len(lbLast.tasks) = 2
    /\ \A i \in DOMAIN lbLast.calls : lbLast.calls[i].kernel = 0

\* C13: a balance call that gets past its guard raises the per-strategy decision
\* counters, taken together, by exactly the number of tasks of the call.
C13_StrategyCountersCountTasks ==
    lbLast.called => lbLast.counted = Len(lbLast.tasks)

\* C14: unless all four are zero, the weights used in resource scoring sum to 1.0.
C14_WeightsSumToOne ==
    <<cpuWeight_, memoryWeight_, networkWeight_, energyWeight_>> # <<0, 0, 0, 0>>
        => cpuWeight_ + memoryWeight_ + networkWeight_ + energyWeight_ = 1000

(***************************************************************************)
(* Component lifecycle: properties.                                        *)
(***************************************************************************)
\* C4: after shutdown has been called twice (or more) in a row on a component,
\* every component is in the state the first of those calls left it in.
C4_ShutdownIdempotent ==
    lcLast.calls >= 2 => components = lcLast.after

C4_Witness ==
    /\ lcLast.calls = 2
    /\ lcLast.component = "ParentKernel"
    /\ ~components["ParentKernel"].flag
    /\ ~components["MicroKernel"].flag
    /\ components["CoreKernel"].flag

\* the kernel variants, as opposed to the managers
KernelVariants ==
    {"CoreKernel", "MicroKernel", "ParentKernel", "ArchitecturalKernel", "ComputationalKernel",
     "CryptoMicroKernel", "OrchestrationKernel", "SmartKernel"}

\* C15: for every kernel variant isRunning() is false before initialize, true from a
\* successful initialize until shutdown, and false after shutdown
C15_IsRunningFollowsLifecycle ==
    \A c \in DOMAIN components \cap KernelVariants :
        /\ components[c].phase \in {"Created", "ShutDown"} => ~isRunning(c, components[c])
        /\ components[c].phase = "Initialized" => isRunning(c, components[c])

\* C16: for every kernel variant reset() leaves the kernel as shutdown() followed by a
\* return to Created does: the kernel is not running, and a later initialize() succeeds
C16_ResetIsShutdownThenCreated ==
    /\ lcCall.op = "reset" => ~isRunning(lcCall.component, components[lcCall.component])
    /\ (lcCall.op = "initialize" /\ lcCall.phase = "Reset") => lcCall.ret \notin {"false", "crash"}

\* C17: an operation invoked on a component before initialize or after shutdown returns
\* a null/none/false result and changes no state
C17_NotInitializedChangesNothing ==
    (/\ lcCall.op \in {"executeTask", "putData", "createRecoveryPoint"}
     /\ lcCall.phase \in {"Created", "ShutDown"})
        => (lcCall.ret = "false" /\ ~lcCall.changed)

\* C18: processTask on a running CoreKernel or MicroKernel terminates and returns true,
\* having stored the task data in the local cache and updated the extended metrics
C18_ProcessTaskCompletes ==
    (lcCall.op = "processTask" /\ lcCall.phase = "Initialized")
        => /\ lcCall.ret = "true"
           /\ components[lcCall.component].cached
           /\ components[lcCall.component].metrics

\* C19: for any interleaving of restoreFromPoint calls isRecoveryInProgress() is true
\* whenever a restore is executing and false whenever none is, whether restores
\* succeed or fail
C19_FlagCoversEveryRestore ==
    "RecoveryManager" \in DOMAIN components =>
        (isRecoveryInProgress(components["RecoveryManager"])
            <=> components["RecoveryManager"].restoring # {})

\* C20: the RecoveryManager only moves Uninitialized -> Initialized <-> RecoveryInProgress
\* and Initialized -> ShutDown, and once it was shut down no create or restore is served
\* any more, whatever was called in between
C20_ShutDownIsTerminal ==
    "RecoveryManager" \in DOMAIN components =>
        /\ isRecoveryInProgress(components["RecoveryManager"])
               => components["RecoveryManager"].phase = "Initialized"
        /\ (/\ lcCall.component = "RecoveryManager"
            /\ lcCall.op \in {"createRecoveryPoint", "restoreFromPoint"}
            /\ lcCall.phase = "ShutDown") => lcCall.ret \notin {"id", "true"}

\* C25: ParentKernel shutdown shuts down every child, in the order the children were
\* added, before it tears down any of its own components
C25_ChildrenBeforeOwnComponents ==
    (lcCall.component = "ParentKernel" /\ lcCall.op = "shutdown") =>
        LET t == lcCall
            isChild(e) == e.kind = "child"
            shut == SelectSeq(t.events, isChild)
        IN /\ [i \in 1..Len(shut) |-> shut[i].name] = t.children
           /\ \A i, j \in 1..Len(t.events) :
                 (t.events[i].kind = "own" /\ t.events[j].kind = "child") => j < i

\* C26: a task enqueued on the OrchestrationKernel is dispatched to a target kernel at
\* most once: once orchestrate or balanceTasks has dispatched it, it is no longer
\* pending and a later orchestrate does not dispatch it again
C26_DispatchedAtMostOnce ==
    "OrchestrationKernel" \in DOMAIN components =>
        LET k == components["OrchestrationKernel"] IN
        \A i \in 1..Len(k.dispatched) :
            /\ k.dispatched[i] \notin Range(k.taskDescriptors)
            /\ \A j \in 1..Len(k.dispatched) : k.dispatched[j] = k.dispatched[i] => j = i

(***************************************************************************)
(* ThreadPool: properties.                                                 *)
(***************************************************************************)
\* C23: when waitForCompletion returns, every closure submitted before the call has
\* been executed exactly once, the queue is empty and no worker is executing, also when
\* closures were submitted by several threads at once
C23_WaitReturnsWhenDrained ==
    poolEvent = "waitForCompletion returned" =>
        /\ \A c \in poolWaitFor : poolRuns[c] = 1
        /\ poolQueue = <<>>
        /\ Executing(poolWorkers) = {}

C23_Witness ==
    /\ poolEvent = "waitForCompletion returned"
    /\ poolWaitFor = Closures
    /\ ~poolStopping

\* C24: stop() returns only after every closure that was queued before the call has
\* been executed and all workers have exited; no queued closure is discarded
C24_StopDrainsQueue ==
    poolEvent = "stop returned" =>
        /\ \A c \in poolStopFor : poolRuns[c] = 1
        /\ \A w \in Workers : poolWorkers[w] = Exited
        /\ poolQueue = <<>>

C24_Witness ==
    /\ poolEvent = "stop returned"
    /\ Cardinality(poolStopFor) = QueueSize

\* C32: two compute calls with equal input on the same running kernel use the
\* same cache key: a call whose input already has its result in the cache
\* finds that result.
C32_EqualInputHitsCache ==
    (lcCall.component = "ComputationalKernel" /\ lcCall.op = "compute"
        /\ lcCall.ret = "true" /\ lcCall.data \in lcCall.stored)
        => lcCall.hit

\* C35: cleanupCache on an initialized manager returns, with the cache empty and
\* the metrics updated; it does not block on the manager's own lock.
C35_CleanupCacheReturns ==
    (lcCall.component = "CacheManager" /\ lcCall.op = "cleanupCache" /\ lcCall.ready)
        => /\ lcCall.ret = "void"
           /\ ~components["CacheManager"].cached
           /\ lcCall.updated

\* C39: initialize, shutdown or destruction of one ParentKernel leaves is_running()
\* of every other live ParentKernel as it was.
C39_RunningPerInstance ==
    pkCall.op \in {"initialize", "shutdown", "destroy"} =>
        \A j \in DOMAIN pkCall.before \ {pkCall.instance} :
            parents[j] = "alive" => Observed[j] = pkCall.before[j]

=============================================================================
